---- MODULE Spec2Model ----
(***************************************************************************)
(* Session resumption for a sticky-routed MCP server fleet.                *)
(*                                                                         *)
(*   stores/memory_store.py   InMemorySessionStore (dict, lazy TTL expiry) *)
(*   stores/redis_store.py    RedisSessionStore (namespaced keys, native   *)
(*                            expiry, scan-then-copy)                      *)
(*   session_store.py         Session (JSON (de)serialisation, copy_from)  *)
(*   server.py                the tools: increment_counter, get_counter,   *)
(*                            add_note, list_notes, resume_session; the    *)
(*                            /health route                                *)
(*   resilient_client.py      ResilientClient (retry, reconnect, resume)   *)
(*                                                                         *)
(* Strings are sequences of one-character strings, so that key             *)
(* construction, prefix slicing, splitting and glob matching are computed  *)
(* as the code computes them.                                              *)
(***************************************************************************)
EXTENDS Integers, Sequences, FiniteSets, TLC

VARIABLES
    now,          \* time.monotonic(), in whole seconds
    mem,          \* InMemorySessionStore._data : (session_id, key) -> (value, expires)
    rdb,          \* the Redis keyspace : fully qualified key -> (type, value, expires)
    last,         \* the last store-level call, its arguments and both backends' results
    wlog,         \* history: per (session_id, key), the last write made to it
    copied,       \* history: has copy_session run (directly or through resume_session)
    written,      \* history: every (session_id, key, value) passed to set
    backend,      \* server.py:21, which SessionStore the server process uses
    max_retries,  \* ResilientClient.max_retries
    client,       \* ResilientClient._client : the current Client object and its connection
    session_id,   \* ResilientClient._session_id
    pc,           \* position of the caller's coroutine inside wrapper
    call,         \* locals and bookkeeping of the wrapped call in progress
    env,          \* the environment: backend availability, ids issued, fault budget
    log           \* history: completed calls and environment events, in order

storeVars  == <<now, mem, rdb, last, wlog, copied, written>>
clientVars == <<backend, max_retries, client, session_id, pc, call, env, log>>
vars       == <<now, mem, rdb, last, wlog, copied, written,
                backend, max_retries, client, session_id, pc, call, env, log>>

----------------------------------------------------------------------------
(* Bounds of the model *)

MaxTime    == 2     \* the clock of the store-level specification stops here
MaxTTL     == 2     \* ttl arguments are drawn from 1..MaxTTL, or omitted
MaxOps     == 2     \* store-level calls per behaviour
MaxRetries == 3     \* max_retries is drawn from 0..MaxRetries
MaxCalls   == 3     \* wrapped calls issued by the caller
MaxFaults  == 2     \* environment events (sever, outage, lost response, idle period)

----------------------------------------------------------------------------
(* Python values *)

\* None where the code has  int | None  (ttl, expires)
NoneInt == -1

\* None where the code has  str | None ; every genuine string is a sequence of
\* one-character strings, so this value is different from all of them
NoneStr == <<"None">>

\* server.py:18
SESSION_TTL == 1800

\* redis_store.py:7
PREFIX == <<"m","c","p",":","s","e","s","s","i","o","n">>

COLON == <<":">>
STAR  == <<"*">>

\* the session keys server.py uses
COUNTER == <<"c","o","u","n","t","e","r">>

\* s[from..] as Python's  s[from_index:]  with 0-based from_index = n
DropPrefix(s, n) == IF n >= Len(s) THEN <<>> ELSE SubSeq(s, n + 1, Len(s))

\* str.split(":")
RECURSIVE SplitFrom(_, _, _)
SplitFrom(s, i, cur) ==
    IF i > Len(s) THEN <<cur>>
    ELSE IF s[i] = ":" THEN <<cur>> \o SplitFrom(s, i + 1, <<>>)
    ELSE SplitFrom(s, i + 1, Append(cur, s[i]))

Split(s) == SplitFrom(s, 1, <<>>)

\* Redis glob matching of SCAN MATCH: '*' matches any run, '?' any one character,
\* every other character itself
RECURSIVE GlobMatch(_, _, _, _)
GlobMatch(pat, i, s, j) ==
    IF i > Len(pat) THEN j > Len(s)
    ELSE IF pat[i] = "*"
         THEN \E n \in j..(Len(s) + 1) : GlobMatch(pat, i + 1, s, n)
    ELSE IF j > Len(s) THEN FALSE
    ELSE IF pat[i] = "?" \/ pat[i] = s[j] THEN GlobMatch(pat, i + 1, s, j + 1)
    ELSE FALSE

\* dict / keyspace update and removal
Put(d, a, e) == [x \in (DOMAIN d) \cup {a} |-> IF x = a THEN e ELSE d[x]]
Del(d, a)    == [x \in (DOMAIN d) \ {a} |-> d[x]]
Empty        == [x \in {} |-> 0]

\* time.monotonic() + ttl if ttl is not None else None
Expires(t, ttl) == IF ttl # NoneInt THEN t + ttl ELSE NoneInt

----------------------------------------------------------------------------
(* stores/memory_store.py *)

\* _is_alive
is_alive(entry, t) == entry.exp = NoneInt \/ entry.exp > t

\* a fault of _read: the session id is not part of the lookup
read_any_session(d, sid, key, t) ==
    LET hits == {a \in DOMAIN d : a[2] = key /\ is_alive(d[a], t)}
    IN  IF hits = {} THEN [data |-> d, ret |-> NoneStr]
        ELSE [data |-> d, ret |-> d[CHOOSE a \in hits : TRUE].val]

\* _read: the value, deleting the entry when it has expired
InMemorySessionStore_read(d, sid, key, t) ==
    IF <<sid, key>> \notin DOMAIN d THEN [data |-> d, ret |-> NoneStr]
    ELSE IF ~is_alive(d[<<sid, key>>], t)
         THEN [data |-> Del(d, <<sid, key>>), ret |-> NoneStr]
    ELSE [data |-> d, ret |-> d[<<sid, key>>].val]

InMemorySessionStore_get(d, sid, key, t) == InMemorySessionStore_read(d, sid, key, t)

\* a fault of set: the ttl is dropped
set_without_expiry(d, sid, key, value, ttl, t) ==
    [data |-> Put(d, <<sid, key>>, [val |-> value, exp |-> NoneInt]), ret |-> NoneStr]

InMemorySessionStore_set(d, sid, key, value, ttl, t) ==
    [data |-> Put(d, <<sid, key>>, [val |-> value, exp |-> Expires(t, ttl)]),
     ret  |-> NoneStr]

InMemorySessionStore_delete(d, sid, key) ==
    [data |-> Del(d, <<sid, key>>), ret |-> NoneStr]

\* a fault of keys: expired entries are listed too
keys_including_expired(d, sid, t) ==
    [data |-> d, ret |-> {x[2] : x \in {a \in DOMAIN d : a[1] = sid}}]

\* keys: the live keys of the session; its expired entries are removed
InMemorySessionStore_keys(d, sid, t) ==
    LET mine      == {a \in DOMAIN d : a[1] = sid}
        to_remove == {a \in mine : ~is_alive(d[a], t)}
    IN  [data |-> [a \in (DOMAIN d) \ to_remove |-> d[a]],
         ret  |-> {a[2] : a \in mine \ to_remove}]

\* the loop of copy_session over src_keys
RECURSIVE InMemoryCopyLoop(_, _, _, _, _, _, _)
InMemoryCopyLoop(d, todo, src, dst, expires, t, done) ==
    IF todo = {} THEN [data |-> d, ret |-> done]
    ELSE LET k == CHOOSE x \in todo : TRUE
             r == InMemorySessionStore_read(d, src, k, t)
         IN  IF r.ret # NoneStr
             THEN InMemoryCopyLoop(Put(r.data, <<dst, k>>, [val |-> r.ret, exp |-> expires]),
                                   todo \ {k}, src, dst, expires, t, done \cup {k})
             ELSE InMemoryCopyLoop(r.data, todo \ {k}, src, dst, expires, t, done)

\* a fault of copy_session: the entry is copied with the expiry it had under src
copy_session_keeping_expiry(d, src, dst, ttl, t) ==
    LET live == {a[2] : a \in {x \in DOMAIN d : x[1] = src /\ is_alive(d[x], t)}}
    IN  [data |-> [a \in (DOMAIN d) \cup {<<dst, k>> : k \in live} |->
                      IF a[1] = dst /\ a[2] \in live THEN d[<<src, a[2]>>] ELSE d[a]],
         ret  |-> live]


\* a fault of copy_session: the copied keys are removed from src
copy_session_moving(d, src, dst, ttl, t) ==
    LET src_keys == InMemorySessionStore_keys(d, src, t)
        c == InMemoryCopyLoop(src_keys.data, src_keys.ret, src, dst, Expires(t, ttl), t, {})
    IN  [data |-> IF src = dst THEN c.data
                  ELSE [a \in (DOMAIN c.data) \ {<<src, k>> : k \in c.ret} |-> c.data[a]],
         ret  |-> c.ret]

\* copy_session: ret is the set of keys copied, the code returns its size
InMemorySessionStore_copy_session(d, src, dst, ttl, t) ==
    LET src_keys == InMemorySessionStore_keys(d, src, t)
    IN  InMemoryCopyLoop(src_keys.data, src_keys.ret, src, dst, Expires(t, ttl), t, {})

InMemorySessionStore_session_ids(d, t) ==
    LET to_remove == {a \in DOMAIN d : ~is_alive(d[a], t)}
    IN  [data |-> [a \in (DOMAIN d) \ to_remove |-> d[a]],
         ret  |-> {a[1] : a \in (DOMAIN d) \ to_remove}]

----------------------------------------------------------------------------
(* stores/redis_store.py *)

\* _fqkey: f"{_PREFIX}:{session_id}:{key}"
fqkey(sid, key) == PREFIX \o COLON \o sid \o COLON \o key

\* f"{_PREFIX}:{session_id}:"
SessionPrefix(sid) == PREFIX \o COLON \o sid \o COLON

\* Redis expires a key natively: a key whose expiry has passed does not exist
RedisExists(r, k, t) == k \in DOMAIN r /\ is_alive(r[k], t)
RedisLive(r, t) == [k \in {x \in DOMAIN r : is_alive(r[x], t)} |-> r[k]]

\* GET
RedisGet(r, k, t) == IF RedisExists(r, k, t) THEN r[k].val ELSE NoneStr

\* SET key value [EX ttl]: the value becomes a string, any earlier expiry is replaced
RedisSet(r, k, value, ttl, t) ==
    Put(RedisLive(r, t), k, [type |-> "string", val |-> value, exp |-> Expires(t, ttl)])

\* DEL
RedisDel(r, k, t) == Del(RedisLive(r, t), k)

\* TYPE
RedisType(r, k, t) == IF RedisExists(r, k, t) THEN r[k].type ELSE "none"

\* RPUSH key v1 v2 ... on a key that does not exist: a new list without expiry
RedisRPush(r, k, values, t) ==
    IF RedisExists(r, k, t)
    THEN Put(RedisLive(r, t), k, [r[k] EXCEPT !.val = r[k].val \o values])
    ELSE Put(RedisLive(r, t), k, [type |-> "list", val |-> values, exp |-> NoneInt])

\* EXPIRE key ttl
RedisExpire(r, k, ttl, t) ==
    IF RedisExists(r, k, t)
    THEN Put(RedisLive(r, t), k, [r[k] EXCEPT !.exp = t + ttl])
    ELSE RedisLive(r, t)

\* scan_iter(match=pattern): every existing key the pattern matches
scan_iter(r, pattern, t) ==
    {k \in DOMAIN r : is_alive(r[k], t) /\ GlobMatch(pattern, 1, k, 1)}

RedisSessionStore_get(r, sid, key, t) ==
    [data |-> RedisLive(r, t), ret |-> RedisGet(r, fqkey(sid, key), t)]

\* a fault of set: an existing key keeps the expiry it had (SET ... KEEPTTL)
redis_set_keeping_ttl(r, sid, key, value, ttl, t) ==
    IF RedisExists(r, fqkey(sid, key), t)
    THEN [data |-> Put(RedisLive(r, t), fqkey(sid, key),
                       [type |-> "string", val |-> value, exp |-> r[fqkey(sid, key)].exp]),
          ret  |-> NoneStr]
    ELSE [data |-> RedisSet(r, fqkey(sid, key), value, ttl, t), ret |-> NoneStr]

RedisSessionStore_set(r, sid, key, value, ttl, t) ==
    [data |-> RedisSet(r, fqkey(sid, key), value, ttl, t), ret |-> NoneStr]

RedisSessionStore_delete(r, sid, key, t) ==
    [data |-> RedisDel(r, fqkey(sid, key), t), ret |-> NoneStr]

RedisSessionStore_keys(r, sid, t) ==
    LET prefix == SessionPrefix(sid)
    IN  [data |-> RedisLive(r, t),
         ret  |-> {DropPrefix(fqk, Len(prefix)) : fqk \in scan_iter(r, prefix \o STAR, t)}]

\* a fault of copy_session: a list is pushed onto the destination key as it is
copy_one_appending(r, old_key, src_prefix, dst, ttl, t) ==
    LET suffix   == DropPrefix(old_key, Len(src_prefix))
        new_key  == fqkey(dst, suffix)
        key_type == RedisType(r, old_key, t)
    IN  IF key_type = "string"
        THEN [data |-> RedisSet(r, new_key, RedisGet(r, old_key, t), ttl, t), ret |-> {suffix}]
        ELSE IF key_type = "list"
        THEN LET r2 == RedisRPush(r, new_key, r[old_key].val, t)
                 r3 == IF ttl # NoneInt THEN RedisExpire(r2, new_key, ttl, t) ELSE r2
             IN  [data |-> r3, ret |-> {suffix}]
        ELSE [data |-> r, ret |-> {}]

\* one iteration of the loop of copy_session, for old_key
RedisCopyOne(r, old_key, src_prefix, dst, ttl, t) ==
    LET suffix   == DropPrefix(old_key, Len(src_prefix))
        new_key  == fqkey(dst, suffix)
        key_type == RedisType(r, old_key, t)
    IN  IF key_type = "string"
        THEN LET val == RedisGet(r, old_key, t)
             IN  IF val # NoneStr
                 THEN [data |-> RedisSet(r, new_key, val, ttl, t), ret |-> {suffix}]
                 ELSE [data |-> r, ret |-> {}]
        ELSE IF key_type = "list"
        THEN LET values == r[old_key].val   \* LRANGE old_key 0 -1
             IN  IF values # <<>>
                 THEN LET r1 == RedisDel(r, new_key, t)
                          r2 == RedisRPush(r1, new_key, values, t)
                          r3 == IF ttl # NoneInt THEN RedisExpire(r2, new_key, ttl, t) ELSE r2
                      IN  [data |-> r3, ret |-> {suffix}]
                 ELSE [data |-> r, ret |-> {}]
        ELSE [data |-> r, ret |-> {}]

\* the loop of copy_session over the keys the scan returns
RECURSIVE RedisCopyLoop(_, _, _, _, _, _, _)
RedisCopyLoop(r, todo, src_prefix, dst, ttl, t, done) ==
    IF todo = {} THEN [data |-> r, ret |-> done]
    ELSE LET old_key == CHOOSE x \in todo : TRUE
             one     == RedisCopyOne(r, old_key, src_prefix, dst, ttl, t)
         IN  RedisCopyLoop(one.data, todo \ {old_key}, src_prefix, dst, ttl, t,
                           done \cup one.ret)

\* a fault of copy_session: the destination is cleared before the copy
copy_session_replacing(r, src, dst, ttl, t) ==
    LET src_prefix == SessionPrefix(src)
        mine       == scan_iter(r, src_prefix \o STAR, t)
        theirs     == scan_iter(r, SessionPrefix(dst) \o STAR, t) \ mine
        cleared    == [k \in (DOMAIN RedisLive(r, t)) \ theirs |-> r[k]]
    IN  RedisCopyLoop(cleared, mine, src_prefix, dst, ttl, t, {})

\* copy_session: ret is the set of key suffixes copied, the code returns how many
RedisSessionStore_copy_session(r, src, dst, ttl, t) ==
    LET src_prefix == SessionPrefix(src)
    IN  RedisCopyLoop(RedisLive(r, t), scan_iter(r, src_prefix \o STAR, t),
                      src_prefix, dst, ttl, t, {})

RedisSessionStore_session_ids(r, t) ==
    [data |-> RedisLive(r, t),
     ret  |-> {Split(k)[3] : k \in {x \in scan_iter(r, PREFIX \o COLON \o STAR, t) :
                                        Len(Split(x)) >= 3}}]

----------------------------------------------------------------------------
(* session_store.py *)

\* the SessionStore interface, dispatched on the concrete class (server.py:21)
SessionStore_get(kind, data, sid, key, t) ==
    IF kind = "memory" THEN InMemorySessionStore_get(data, sid, key, t)
    ELSE RedisSessionStore_get(data, sid, key, t)

SessionStore_set(kind, data, sid, key, value, ttl, t) ==
    IF kind = "memory" THEN InMemorySessionStore_set(data, sid, key, value, ttl, t)
    ELSE RedisSessionStore_set(data, sid, key, value, ttl, t)

SessionStore_copy_session(kind, data, src, dst, ttl, t) ==
    IF kind = "memory" THEN InMemorySessionStore_copy_session(data, src, dst, ttl, t)
    ELSE RedisSessionStore_copy_session(data, src, dst, ttl, t)

Digits == <<"0", "1", "2", "3", "4", "5", "6", "7", "8", "9">>

\* json.dumps of a non-negative int
RECURSIVE dumps(_)
dumps(n) == IF n < 10 THEN <<Digits[n + 1]>>
            ELSE dumps(n \div 10) \o <<Digits[(n % 10) + 1]>>

DigitValue(c) == (CHOOSE i \in 1..10 : Digits[i] = c) - 1
IsDigit(c)    == \E i \in 1..10 : Digits[i] = c

\* json.loads of a string holding an int: ok is FALSE where json.loads raises
RECURSIVE ParseInt(_, _, _)
ParseInt(s, i, acc) ==
    IF i > Len(s) THEN acc ELSE ParseInt(s, i + 1, acc * 10 + DigitValue(s[i]))

loads(s) ==
    IF s # <<>> /\ (\A i \in 1..Len(s) : IsDigit(s[i])) /\ (Len(s) = 1 \/ s[1] # "0")
    THEN [ok |-> TRUE, val |-> ParseInt(s, 1, 0)]
    ELSE [ok |-> FALSE, val |-> 0]

\* Session.get: ret.none is TRUE where the code returns None
Session_get(kind, data, sid, key, t) ==
    LET raw == SessionStore_get(kind, data, sid, key, t)
    IN  IF raw.ret # NoneStr
        THEN [data |-> raw.data, none |-> FALSE, json |-> loads(raw.ret)]
        ELSE [data |-> raw.data, none |-> TRUE, json |-> [ok |-> TRUE, val |-> 0]]

\* Session.set
Session_set(kind, data, sid, key, value, default_ttl, t) ==
    SessionStore_set(kind, data, sid, key, dumps(value), default_ttl, t)

\* Session.copy_from
Session_copy_from(kind, data, sid, old_session_id, default_ttl, t) ==
    LET c == SessionStore_copy_session(kind, data, old_session_id, sid, default_ttl, t)
    IN  [data |-> c.data, ret |-> Cardinality(c.ret)]

----------------------------------------------------------------------------
(* server.py: the tools, run under the caller's session id ctx_sid *)

\* (await s.get("counter") or 0) + 1 ; s.set("counter", val)
increment_counter(kind, data, ctx_sid, t) ==
    LET g   == Session_get(kind, data, ctx_sid, COUNTER, t)
        val == (IF g.none THEN 0 ELSE g.json.val) + 1
        w   == Session_set(kind, g.data, ctx_sid, COUNTER, val, SESSION_TTL, t)
    IN  [data |-> w.data, ret |-> [counter |-> val]]

get_counter(kind, data, ctx_sid, t) ==
    LET g == Session_get(kind, data, ctx_sid, COUNTER, t)
    IN  [data |-> g.data, ret |-> [counter |-> IF g.none THEN 0 ELSE g.json.val]]

\* a fault of resume_session: a source without keys is reported as unknown
resume_session_strict(kind, data, ctx_sid, old_session_id, t) ==
    IF old_session_id = ctx_sid
    THEN [data |-> data, ret |-> [status |-> "same_session"]]
    ELSE LET c == Session_copy_from(kind, data, ctx_sid, old_session_id, SESSION_TTL, t)
         IN  IF c.ret = 0 THEN [data |-> c.data, ret |-> [status |-> "unknown_session"]]
             ELSE [data |-> c.data, ret |-> [status |-> "resumed", keys_copied |-> c.ret]]

\* a fault of resume_session: the guard on the caller's own session id is missing
resume_session_unguarded(kind, data, ctx_sid, old_session_id, t) ==
    LET c == Session_copy_from(kind, data, ctx_sid, old_session_id, SESSION_TTL, t)
    IN  [data |-> c.data, ret |-> [status |-> "resumed", keys_copied |-> c.ret]]

resume_session(kind, data, ctx_sid, old_session_id, t) ==
    IF old_session_id = ctx_sid
    THEN [data |-> data, ret |-> [status |-> "same_session"]]
    ELSE LET c == Session_copy_from(kind, data, ctx_sid, old_session_id, SESSION_TTL, t)
         IN  [data |-> c.data, ret |-> [status |-> "resumed", keys_copied |-> c.ret]]

----------------------------------------------------------------------------
(* The store-level specification: one caller drives both backends with the  *)
(* same calls at the same times.                                            *)

StoreSids == {<<"a">>, <<"b">>}
StoreKeys == {<<"k">>, <<"n">>}
StoreVals == {<<"x">>, <<"y">>}
TTLs      == {NoneInt} \cup (1..MaxTTL)

NoWrite == [kind |-> "none", val |-> NoneStr, at |-> 0, ttl |-> NoneInt]

\* a call record: op and arguments, then the result of each backend
Called(op, sid, key, val, dst, ttl, m, r) ==
    [n |-> last.n + 1, op |-> op, sid |-> sid, key |-> key, val |-> val, dst |-> dst,
     ttl |-> ttl, at |-> now, m |-> m, r |-> r]

\* the locals of wrapper when no call is in progress
NoCall == [name |-> "none", attempt |-> 0, tries |-> 0, reconnects |-> 0,
           old_session_id |-> NoneStr, absorbed |-> {}]

NoClient == [id |-> 0, state |-> "none", sid |-> NoneStr]

InitStoreVars ==
    /\ now = 0
    /\ mem = Empty
    /\ rdb = Empty
    /\ last = [n |-> 0, op |-> "none", sid |-> <<>>, key |-> <<>>, val |-> <<>>,
               dst |-> <<>>, ttl |-> NoneInt, at |-> 0, m |-> NoneStr, r |-> NoneStr]
    /\ wlog = [a \in StoreSids \X StoreKeys |-> NoWrite]
    /\ copied = FALSE
    /\ written = {}

\* ResilientClient.__init__, before __aenter__; the environment is healthy
InitClientVars ==
    /\ client = NoClient
    /\ session_id = NoneStr
    /\ pc = "init"
    /\ call = NoCall
    /\ env = [up |-> TRUE, issued |-> 0, clients |-> 0, faults |-> 0, calls |-> 0]
    /\ log = <<>>

InitStore ==
    /\ InitStoreVars
    /\ InitClientVars
    /\ backend = "redis"
    /\ max_retries = 0

StoreGet(sid, key) ==
    /\ last.n < MaxOps
    /\ LET m == InMemorySessionStore_get(mem, sid, key, now)
           r == RedisSessionStore_get(rdb, sid, key, now)
       IN  /\ mem' = m.data
           /\ rdb' = r.data
           /\ last' = Called("get", sid, key, <<>>, <<>>, NoneInt, m.ret, r.ret)
    /\ UNCHANGED <<now, wlog, copied, written, clientVars>>

StoreSet(sid, key, value, ttl) ==
    /\ last.n < MaxOps
    /\ LET m == InMemorySessionStore_set(mem, sid, key, value, ttl, now)
           r == RedisSessionStore_set(rdb, sid, key, value, ttl, now)
       IN  /\ mem' = m.data
           /\ rdb' = r.data
           /\ last' = Called("set", sid, key, value, <<>>, ttl, m.ret, r.ret)
    /\ wlog' = [wlog EXCEPT ![<<sid, key>>] =
                    [kind |-> "set", val |-> value, at |-> now, ttl |-> ttl]]
    /\ written' = written \cup {<<sid, key, value>>}
    /\ UNCHANGED <<now, copied, clientVars>>

StoreDelete(sid, key) ==
    /\ last.n < MaxOps
    /\ LET m == InMemorySessionStore_delete(mem, sid, key)
           r == RedisSessionStore_delete(rdb, sid, key, now)
       IN  /\ mem' = m.data
           /\ rdb' = r.data
           /\ last' = Called("delete", sid, key, <<>>, <<>>, NoneInt, m.ret, r.ret)
    /\ wlog' = [wlog EXCEPT ![<<sid, key>>] = [NoWrite EXCEPT !.kind = "other", !.at = now]]
    /\ UNCHANGED <<now, copied, written, clientVars>>

StoreKeysCall(sid) ==
    /\ last.n < MaxOps
    /\ LET m == InMemorySessionStore_keys(mem, sid, now)
           r == RedisSessionStore_keys(rdb, sid, now)
       IN  /\ mem' = m.data
           /\ rdb' = r.data
           /\ last' = Called("keys", sid, <<>>, <<>>, <<>>, NoneInt, m.ret, r.ret)
    /\ UNCHANGED <<now, wlog, copied, written, clientVars>>

StoreSessionIds ==
    /\ last.n < MaxOps
    /\ LET m == InMemorySessionStore_session_ids(mem, now)
           r == RedisSessionStore_session_ids(rdb, now)
       IN  /\ mem' = m.data
           /\ rdb' = r.data
           /\ last' = Called("session_ids", <<>>, <<>>, <<>>, <<>>, NoneInt, m.ret, r.ret)
    /\ UNCHANGED <<now, wlog, copied, written, clientVars>>

\* the history of a copy into dst: the keys either backend wrote are written anew
CopyLogged(dst, touched) ==
    [a \in DOMAIN wlog |->
        IF a[1] = dst /\ a[2] \in touched
        THEN [NoWrite EXCEPT !.kind = "other", !.at = now] ELSE wlog[a]]

StoreCopySession(src, dst, ttl) ==
    /\ last.n < MaxOps
    /\ LET m == InMemorySessionStore_copy_session(mem, src, dst, ttl, now)
           r == RedisSessionStore_copy_session(rdb, src, dst, ttl, now)
       IN  /\ mem' = m.data
           /\ rdb' = r.data
           /\ last' = Called("copy_session", src, <<>>, <<>>, dst, ttl,
                             Cardinality(m.ret), Cardinality(r.ret))
           /\ wlog' = CopyLogged(dst, m.ret \cup r.ret)
    /\ copied' = TRUE
    /\ UNCHANGED <<now, written, clientVars>>

\* the resume_session tool, called under session ctx_sid
StoreResume(ctx_sid, old_session_id) ==
    /\ last.n < MaxOps
    /\ LET m == resume_session("memory", mem, ctx_sid, old_session_id, now)
           r == resume_session("redis", rdb, ctx_sid, old_session_id, now)
       IN  /\ mem' = m.data
           /\ rdb' = r.data
           /\ last' = Called("resume_session", old_session_id, <<>>, <<>>, ctx_sid,
                             SESSION_TTL, m.ret, r.ret)
    /\ wlog' = IF old_session_id = ctx_sid THEN wlog
               ELSE CopyLogged(ctx_sid,
                        InMemorySessionStore_copy_session(mem, old_session_id, ctx_sid,
                                                          SESSION_TTL, now).ret
                        \cup RedisSessionStore_copy_session(rdb, old_session_id, ctx_sid,
                                                            SESSION_TTL, now).ret)
    /\ copied' = TRUE
    /\ UNCHANGED <<now, written, clientVars>>

\* time passes
Tick ==
    /\ now < MaxTime
    /\ now' = now + 1
    /\ UNCHANGED <<mem, rdb, last, wlog, copied, written, clientVars>>

NextStore ==
    \/ \E sid \in StoreSids, key \in StoreKeys : StoreGet(sid, key)
    \/ \E sid \in StoreSids, key \in StoreKeys, value \in StoreVals, ttl \in TTLs :
           StoreSet(sid, key, value, ttl)
    \/ \E sid \in StoreSids, key \in StoreKeys : StoreDelete(sid, key)
    \/ \E sid \in StoreSids : StoreKeysCall(sid)
    \/ StoreSessionIds
    \/ \E src \in StoreSids, dst \in StoreSids, ttl \in TTLs : StoreCopySession(src, dst, ttl)
    \/ \E ctx_sid \in StoreSids, old \in StoreSids : StoreResume(ctx_sid, old)
    \/ Tick

SpecStore == InitStore /\ [][NextStore]_vars

----------------------------------------------------------------------------
(* What a caller can observe of one storage address, by address and not by  *)
(* enumeration: the live entry, or nothing.                                  *)

AbsentEntry == [val |-> NoneStr, exp |-> NoneInt]

MemEntry(d, sid, key, t) ==
    IF <<sid, key>> \in DOMAIN d /\ is_alive(d[<<sid, key>>], t)
    THEN d[<<sid, key>>] ELSE AbsentEntry

RedisEntry(r, sid, key, t) ==
    IF RedisExists(r, fqkey(sid, key), t)
    THEN [val |-> r[fqkey(sid, key)].val, exp |-> r[fqkey(sid, key)].exp]
    ELSE AbsentEntry

MemLiveKeys(d, sid, t)   == {k \in StoreKeys : MemEntry(d, sid, k, t) # AbsentEntry}
RedisLiveKeys(r, sid, t) == {k \in StoreKeys : RedisEntry(r, sid, k, t) # AbsentEntry}

\* the expiry a write at time t with this ttl must leave
FreshExpiry(t, ttl) == IF ttl = NoneInt THEN NoneInt ELSE t + ttl

\* the step just taken is a call of op
Took(op) == last'.n = last.n + 1 /\ last'.op = op

----------------------------------------------------------------------------
(* Claims settled on the store-level specification *)

\* C2 (isolation, InMemorySessionStore): as long as no copy_session has run, get(B, k)
\* returns only a value that was written under B at k, and keys(B) returns only keys
\* that were written under B; what was written under another session id A only is
\* never read under B.
C2_Isolation ==
    ~copied =>
        /\ (last.op = "get" /\ last.m # NoneStr) =>
               <<last.sid, last.key, last.m>> \in written
        /\ last.op = "keys" =>
               \A k \in last.m : \E v \in StoreVals : <<last.sid, k, v>> \in written

\* a read under B of a key that is live under A only returned nothing
C2_Witness ==
    /\ ~copied
    /\ last.op = "get"
    /\ last.m = NoneStr
    /\ \E A \in StoreSids \ {last.sid} : MemEntry(mem, A, last.key, last.at) # AbsentEntry

\* C3 (resume completeness, both backends): copy_session(src, dst, ttl) returns the
\* number of keys live under src at the call, and afterwards every such key is stored
\* under dst with src's content and with expiry = time of the copy + ttl, or without
\* expiry when ttl is omitted.
C3_Step ==
    Took("copy_session") =>
        LET src == last'.sid
            dst == last'.dst
            ttl == last'.ttl
            t   == last'.at
        IN  /\ last'.m = Cardinality(MemLiveKeys(mem, src, t))
            /\ \A k \in MemLiveKeys(mem, src, t) :
                   MemEntry(mem', dst, k, t) =
                       [val |-> MemEntry(mem, src, k, t).val, exp |-> FreshExpiry(t, ttl)]
            /\ last'.r = Cardinality(RedisLiveKeys(rdb, src, t))
            /\ \A k \in RedisLiveKeys(rdb, src, t) :
                   RedisEntry(rdb', dst, k, t) =
                       [val |-> RedisEntry(rdb, src, k, t).val, exp |-> FreshExpiry(t, ttl)]

C3_ResumeCompleteness == [][C3_Step]_vars

\* a copy between two sessions that copied at least one key, whose copy now reads
\* under the destination as it reads under the source
C3_Witness ==
    /\ last.op = "copy_session"
    /\ last.sid # last.dst
    /\ last.m >= 1
    /\ last.r >= 1
    /\ \E k \in StoreKeys :
           /\ MemEntry(mem, last.dst, k, last.at) # AbsentEntry
           /\ MemEntry(mem, last.dst, k, last.at).val = MemEntry(mem, last.sid, k, last.at).val
           /\ RedisEntry(rdb, last.dst, k, last.at).val = RedisEntry(rdb, last.sid, k, last.at).val

\* C7 (resume is additive/overwriting, both backends): after copy_session(src, dst, ttl)
\* a key that is not live under src reads under dst exactly as before (same value, same
\* expiry, or still absent), and a key live under both src and dst holds src's value
\* with the freshly computed expiry.
C7_Step ==
    Took("copy_session") =>
        LET src == last'.sid
            dst == last'.dst
            ttl == last'.ttl
            t   == last'.at
        IN  \A k \in StoreKeys :
              /\ k \notin MemLiveKeys(mem, src, t) =>
                     MemEntry(mem', dst, k, t) = MemEntry(mem, dst, k, t)
              /\ (k \in MemLiveKeys(mem, src, t) /\ k \in MemLiveKeys(mem, dst, t)) =>
                     MemEntry(mem', dst, k, t) =
                         [val |-> MemEntry(mem, src, k, t).val, exp |-> FreshExpiry(t, ttl)]
              /\ k \notin RedisLiveKeys(rdb, src, t) =>
                     RedisEntry(rdb', dst, k, t) = RedisEntry(rdb, dst, k, t)
              /\ (k \in RedisLiveKeys(rdb, src, t) /\ k \in RedisLiveKeys(rdb, dst, t)) =>
                     RedisEntry(rdb', dst, k, t) =
                         [val |-> RedisEntry(rdb, src, k, t).val, exp |-> FreshExpiry(t, ttl)]

C8_Step ==
    /\ (Took("copy_session") /\ MemLiveKeys(mem, last'.sid, last'.at) = {}) =>
           /\ last'.m = 0
           /\ \A sid \in StoreSids, k \in StoreKeys :
                  MemEntry(mem', sid, k, last'.at) = MemEntry(mem, sid, k, last'.at)
    /\ (Took("copy_session") /\ RedisLiveKeys(rdb, last'.sid, last'.at) = {}) =>
           /\ last'.r = 0
           /\ \A sid \in StoreSids, k \in StoreKeys :
                  RedisEntry(rdb', sid, k, last'.at) = RedisEntry(rdb, sid, k, last'.at)
    /\ (Took("resume_session") /\ last'.sid # last'.dst
            /\ MemLiveKeys(mem, last'.sid, last'.at) = {}) =>
           /\ last'.m = [status |-> "resumed", keys_copied |-> 0]
           /\ \A sid \in StoreSids, k \in StoreKeys :
                  MemEntry(mem', sid, k, last'.at) = MemEntry(mem, sid, k, last'.at)
    /\ (Took("resume_session") /\ last'.sid # last'.dst
            /\ RedisLiveKeys(rdb, last'.sid, last'.at) = {}) =>
           /\ last'.r = [status |-> "resumed", keys_copied |-> 0]
           /\ \A sid \in StoreSids, k \in StoreKeys :
                  RedisEntry(rdb', sid, k, last'.at) = RedisEntry(rdb, sid, k, last'.at)

C8_ResumeEmptySource == [][C8_Step]_vars

\* resume_session from a session without live keys, called under a session that holds
\* one, answered "resumed" with 0 keys
C8_Witness ==
    /\ last.op = "resume_session"
    /\ last.sid # last.dst
    /\ last.m = [status |-> "resumed", keys_copied |-> 0]
    /\ last.r = [status |-> "resumed", keys_copied |-> 0]
    /\ MemLiveKeys(mem, last.dst, last.at) # {}
    /\ RedisLiveKeys(rdb, last.dst, last.at) # {}

\* C9 (same-session resume): resume_session called with the caller's own session id
\* answers status "same_session" and leaves both stores exactly as they were.
C9_Step ==
    (Took("resume_session") /\ last'.sid = last'.dst) =>
        /\ last'.m.status = "same_session"
        /\ last'.r.status = "same_session"
        /\ mem' = mem
        /\ rdb' = rdb

C9_SameSessionResume == [][C9_Step]_vars

\* resume_session with the caller's own id, on a session that holds a live key
C9_Witness ==
    /\ last.op = "resume_session"
    /\ last.sid = last.dst
    /\ last.m.status = "same_session"
    /\ MemLiveKeys(mem, last.dst, last.at) # {}
    /\ RedisLiveKeys(rdb, last.dst, last.at) # {}

\* C10 (TTL expiry, both backends): when the last write to (sid, key) was
\* set(sid, key, value, ttl = T) at time t, a get at a time before t + T returns value
\* and a get at a time after t + T returns None.
C10_TTLExpiry ==
    last.op = "get" =>
        LET w == wlog[<<last.sid, last.key>>]
        IN  (w.kind = "set" /\ w.ttl # NoneInt) =>
                /\ last.at < w.at + w.ttl => (last.m = w.val /\ last.r = w.val)
                /\ last.at > w.at + w.ttl => (last.m = NoneStr /\ last.r = NoneStr)

\* a get issued after the ttl of the last write had elapsed returned None
C10_Witness ==
    /\ last.op = "get"
    /\ wlog[<<last.sid, last.key>>].kind = "set"
    /\ wlog[<<last.sid, last.key>>].ttl # NoneInt
    /\ last.at > wlog[<<last.sid, last.key>>].at + wlog[<<last.sid, last.key>>].ttl
    /\ last.m = NoneStr
    /\ last.r = NoneStr

\* C11 (enumeration excludes expired entries, both backends): every key keys(sid)
\* returns is stored under sid with an expiry that has not passed at the call, and
\* session_ids() returns exactly the session ids that hold at least one such key.
C11_Step ==
    /\ Took("keys") =>
           /\ last'.m \subseteq MemLiveKeys(mem, last'.sid, last'.at)
           /\ last'.r \subseteq RedisLiveKeys(rdb, last'.sid, last'.at)
    /\ Took("session_ids") =>
           /\ last'.m = {sid \in StoreSids : MemLiveKeys(mem, sid, last'.at) # {}}
           /\ last'.r = {sid \in StoreSids : RedisLiveKeys(rdb, sid, last'.at) # {}}

C11_EnumerationExcludesExpired == [][C11_Step]_vars

\* session_ids() was called when the only key of a session had expired, and did not
\* return that session
C11_Witness ==
    /\ last.op = "session_ids"
    /\ \E sid \in StoreSids, k \in StoreKeys :
           /\ wlog[<<sid, k>>].kind = "set"
           /\ wlog[<<sid, k>>].ttl # NoneInt
           /\ last.at >= wlog[<<sid, k>>].at + wlog[<<sid, k>>].ttl
           /\ sid \notin last.m
           /\ sid \notin last.r

\* C18 (shape of the resume response): every response of resume_session has a status
\* "resumed" or "same_session" and an integer field keys_copied, whichever the outcome.
C18_ResumeResponseShape ==
    last.op = "resume_session" =>
        \A res \in {last.m, last.r} :
            /\ res.status \in {"resumed", "same_session"}
            /\ "keys_copied" \in DOMAIN res
            /\ res.keys_copied \in Nat

----------------------------------------------------------------------------
(* The same store-level calls, with session ids and keys that hold the        *)
(* separator ':' or a glob metacharacter: both are plain  str  arguments of   *)
(* the SessionStore interface.                                                *)

NameSids == {<<"a">>, <<"a", ":", "b">>, <<"*">>}
NameKeys == {<<"k">>, <<"b", ":", "k">>}

InitNames ==
    /\ now = 0
    /\ mem = Empty
    /\ rdb = Empty
    /\ last = [n |-> 0, op |-> "none", sid |-> <<>>, key |-> <<>>, val |-> <<>>,
               dst |-> <<>>, ttl |-> NoneInt, at |-> 0, m |-> NoneStr, r |-> NoneStr]
    /\ wlog = [a \in NameSids \X NameKeys |-> NoWrite]
    /\ copied = FALSE
    /\ written = {}
    /\ InitClientVars
    /\ backend = "redis"
    /\ max_retries = 0

NextNames ==
    \/ \E sid \in NameSids, key \in NameKeys : StoreGet(sid, key)
    \/ \E sid \in NameSids, key \in NameKeys, value \in StoreVals, ttl \in TTLs :
           StoreSet(sid, key, value, ttl)
    \/ \E sid \in NameSids, key \in NameKeys : StoreDelete(sid, key)
    \/ \E sid \in NameSids : StoreKeysCall(sid)
    \/ StoreSessionIds
    \/ \E src \in NameSids, dst \in NameSids, ttl \in TTLs : StoreCopySession(src, dst, ttl)
    \/ \E ctx_sid \in NameSids, old \in NameSids : StoreResume(ctx_sid, old)
    \/ Tick

SpecNames == InitNames /\ [][NextNames]_vars

\* the (session id, key) pairs set so far, and the keys set under one session id
WrittenPairs == {<<w[1], w[2]>> : w \in written}
WrittenKeys(sid) == {w[2] : w \in {x \in written : x[1] = sid}}

\* C12 (Redis namespace, for all strings): two distinct (session id, key) pairs that
\* were set never share a storage address; and, as long as no copy has run before,
\* keys(sid) returns only keys set under sid, session_ids() returns only session ids
\* something was set under, and copy_session(src, dst) copies no more keys than were
\* set under src.
C12_Step ==
    /\ \A p \in WrittenPairs, q \in WrittenPairs :
           p # q => fqkey(p[1], p[2]) # fqkey(q[1], q[2])
    /\ (~copied /\ Took("keys")) => last'.r \subseteq WrittenKeys(last'.sid)
    /\ (~copied /\ Took("session_ids")) => \A sid \in last'.r : WrittenKeys(sid) # {}
    /\ (~copied /\ Took("copy_session")) => last'.r <= Cardinality(WrittenKeys(last'.sid))

C12_RedisNamespace == [][C12_Step]_vars

\* C13 (the backends are interchangeable): every call returns the same result from
\* InMemorySessionStore and from RedisSessionStore, given the same calls at the same
\* times (enumerations compared as sets).
C13_BackendsInterchangeable == last.m = last.r

----------------------------------------------------------------------------
(* The Session facade over both backends. The store it wraps is reachable    *)
(* through the SessionStore interface as well, which stores any string.      *)

\* raw strings another user of the store leaves behind: an int, a bare word, the
\* empty string, a number with a leading zero
RawVals == {<<"7">>, <<"x">>, <<>>, <<"0", "7">>}

\* the values handed to Session.set
JsonInts == {0, 7, 12}

\* what the caller of Session.get receives: None, a value, or an exception
Got(g) == [none |-> g.none, raised |-> ~g.json.ok, val |-> g.json.val]

SessionGet(sid, key) ==
    /\ last.n < MaxOps
    /\ LET m == Session_get("memory", mem, sid, key, now)
           r == Session_get("redis", rdb, sid, key, now)
       IN  /\ mem' = m.data
           /\ rdb' = r.data
           /\ last' = Called("Session.get", sid, key, <<>>, <<>>, NoneInt, Got(m), Got(r))
    /\ UNCHANGED <<now, wlog, copied, written, clientVars>>

SessionSet(sid, key, value) ==
    /\ last.n < MaxOps
    /\ LET m == Session_set("memory", mem, sid, key, value, SESSION_TTL, now)
           r == Session_set("redis", rdb, sid, key, value, SESSION_TTL, now)
       IN  /\ mem' = m.data
           /\ rdb' = r.data
           /\ last' = Called("Session.set", sid, key, dumps(value), <<>>, SESSION_TTL,
                             m.ret, r.ret)
    /\ wlog' = [wlog EXCEPT ![<<sid, key>>] =
                    [kind |-> "set", val |-> dumps(value), at |-> now, ttl |-> SESSION_TTL]]
    /\ written' = written \cup {<<sid, key, dumps(value)>>}
    /\ UNCHANGED <<now, copied, clientVars>>

NextSession ==
    \/ \E sid \in StoreSids, key \in StoreKeys : SessionGet(sid, key)
    \/ \E sid \in StoreSids, key \in StoreKeys, value \in JsonInts : SessionSet(sid, key, value)
    \/ \E sid \in StoreSids, key \in StoreKeys, raw \in RawVals :
           StoreSet(sid, key, raw, NoneInt)

SpecSession == InitStore /\ [][NextSession]_vars

\* C14 (Session.get never fails hard): Session.get(key) raises nothing, and returns
\* None both when nothing is stored under the key and when the stored string is not
\* a serialized value.
C14_Step ==
    Took("Session.get") =>
        LET rawm == MemEntry(mem, last'.sid, last'.key, last'.at).val
            rawr == RedisEntry(rdb, last'.sid, last'.key, last'.at).val
        IN  /\ ~last'.m.raised
            /\ (rawm = NoneStr \/ ~loads(rawm).ok) => last'.m.none
            /\ ~last'.r.raised
            /\ (rawr = NoneStr \/ ~loads(rawr).ok) => last'.r.none

C14_SessionGetNeverRaises == [][C14_Step]_vars

----------------------------------------------------------------------------
(* Writes to one address over time: store.set with any ttl, Session.set with *)
(* the session's default ttl, reads, and the clock.                          *)

NextWrites ==
    \/ \E sid \in StoreSids, key \in StoreKeys, value \in StoreVals, ttl \in TTLs :
           StoreSet(sid, key, value, ttl)
    \/ \E sid \in StoreSids, key \in StoreKeys, value \in JsonInts : SessionSet(sid, key, value)
    \/ \E sid \in StoreSids, key \in StoreKeys : StoreGet(sid, key)
    \/ Tick

SpecWrites == InitStore /\ [][NextWrites]_vars

\* C25 (every write replaces the expiry, both backends): after set(sid, key, value, ttl)
\* the entry holds value with expiry = time of the call + ttl, and after a set without
\* ttl it holds value without expiry, whatever was stored under the key before.
C25_Step ==
    (Took("set") \/ Took("Session.set")) =>
        LET fresh == [val |-> last'.val, exp |-> FreshExpiry(last'.at, last'.ttl)]
        IN  /\ MemEntry(mem', last'.sid, last'.key, last'.at) = fresh
            /\ RedisEntry(rdb', last'.sid, last'.key, last'.at) = fresh

C25_WriteReplacesExpiry == [][C25_Step]_vars

\* the key was written by Session.set (value 12, ttl SESSION_TTL), and later by a set
\* without ttl: it now has no expiry
C25_Witness ==
    /\ last.n = 2
    /\ last.op = "set"
    /\ last.ttl = NoneInt
    /\ last.at >= 1
    /\ <<last.sid, last.key, dumps(12)>> \in written
    /\ MemEntry(mem, last.sid, last.key, last.at) = [val |-> last.val, exp |-> NoneInt]
    /\ RedisEntry(rdb, last.sid, last.key, last.at) = [val |-> last.val, exp |-> NoneInt]

----------------------------------------------------------------------------
(* Scalars and sequences in the shared store: strings are written through    *)
(* the SessionStore interface, lists by another client of the same Redis     *)
(* keyspace; copy_session meets both.                                        *)

ShapeKeys  == {<<"k">>}
ShapeLists == {<< <<"p">>, <<"q">> >>, << <<"q">> >>}

\* RPUSH by another client of Redis, creating a list under a key of the namespace
RedisPush(sid, key, values) ==
    /\ RedisType(rdb, fqkey(sid, key), now) = "none"
    /\ rdb' = RedisRPush(rdb, fqkey(sid, key), values, now)
    /\ UNCHANGED <<now, mem, last, wlog, copied, written, clientVars>>

NextShapes ==
    \/ \E sid \in StoreSids, key \in ShapeKeys, value \in StoreVals, ttl \in TTLs :
           StoreSet(sid, key, value, ttl)
    \/ \E sid \in StoreSids, key \in ShapeKeys, values \in ShapeLists :
           RedisPush(sid, key, values)
    \/ \E src \in StoreSids, dst \in StoreSids, ttl \in TTLs : StoreCopySession(src, dst, ttl)
    \/ Tick

SpecShapes == InitStore /\ [][NextShapes]_vars

\* C26 (copy_session preserves the shape of values): a key that holds a string under
\* src holds the same string under dst after the copy, and a key that holds a list
\* under src holds a list with the same elements in the same order under dst, in place
\* of whatever dst held under that key before, string or list.
C26_Step ==
    Took("copy_session") =>
        \A k \in ShapeKeys :
            LET s == fqkey(last'.sid, k)
                d == fqkey(last'.dst, k)
            IN  /\ RedisExists(rdb, s, now) =>
                       /\ RedisExists(rdb', d, now)
                       /\ rdb'[d].type = rdb[s].type
                       /\ rdb'[d].val = rdb[s].val
                /\ MemEntry(mem, last'.sid, k, now) # AbsentEntry =>
                       MemEntry(mem', last'.dst, k, now).val = MemEntry(mem, last'.sid, k, now).val

C26_CopyPreservesShape == [][C26_Step]_vars

\* a list of two elements was copied over a key under which dst held a string
C26_Witness ==
    /\ last.op = "copy_session"
    /\ last.sid # last.dst
    /\ last.at = 0
    /\ \E k \in ShapeKeys :
           /\ \E v \in StoreVals : <<last.dst, k, v>> \in written
           /\ RedisType(rdb, fqkey(last.sid, k), now) = "list"
           /\ RedisType(rdb, fqkey(last.dst, k), now) = "list"
           /\ rdb[fqkey(last.dst, k)].val = << <<"p">>, <<"q">> >>

----------------------------------------------------------------------------
(* the stores after a session has written its keys: copies, then writes and deletes *)

SeedVal == <<"x">>

\* the calls are made without a ttl or with the longest one
CopyTTLs == {NoneInt, MaxTTL}

\* one session has set both keys at time 0, without expiry or with the longest ttl
InitCopies ==
    /\ InitClientVars
    /\ backend = "redis"
    /\ max_retries = 0
    /\ now = 0
    /\ last = [n |-> 0, op |-> "none", sid |-> <<>>, key |-> <<>>, val |-> <<>>,
               dst |-> <<>>, ttl |-> NoneInt, at |-> 0, m |-> NoneStr, r |-> NoneStr]
    /\ copied = FALSE
    /\ \E sid \in StoreSids, ttl \in CopyTTLs :
           /\ mem = InMemorySessionStore_set(
                        InMemorySessionStore_set(Empty, sid, <<"k">>, SeedVal, ttl, 0).data,
                        sid, <<"n">>, SeedVal, ttl, 0).data
           /\ rdb = RedisSessionStore_set(
                        RedisSessionStore_set(Empty, sid, <<"k">>, SeedVal, ttl, 0).data,
                        sid, <<"n">>, SeedVal, ttl, 0).data
           /\ wlog = [a \in StoreSids \X StoreKeys |->
                         IF a[1] = sid
                         THEN [kind |-> "set", val |-> SeedVal, at |-> 0, ttl |-> ttl]
                         ELSE NoWrite]
           /\ written = {<<sid, k, SeedVal>> : k \in StoreKeys}

NextCopies ==
    \/ \E src \in StoreSids, dst \in StoreSids, ttl \in CopyTTLs :
           StoreCopySession(src, dst, ttl)
    \/ \E sid \in StoreSids, key \in StoreKeys, value \in StoreVals \ {SeedVal},
          ttl \in CopyTTLs : StoreSet(sid, key, value, ttl)
    \/ \E sid \in StoreSids, key \in StoreKeys : StoreDelete(sid, key)
    \/ Tick

SpecCopies == InitCopies /\ [][NextCopies]_vars

\* every key of session sid reads the same, value and expiry, before and after the step
ReadsUnchanged(sid) ==
    \A k \in StoreKeys :
        /\ MemEntry(mem', sid, k, now) = MemEntry(mem, sid, k, now)
        /\ RedisEntry(rdb', sid, k, now) = RedisEntry(rdb, sid, k, now)

\* C33 (resume copies and does not move): copy_session(src, dst, ttl) with src # dst
\* leaves every entry under src with its value and its original expiry, and a write or
\* delete under one session, before or after a copy, never changes what is read under
\* another session.
C33_Step ==
    /\ (Took("copy_session") /\ last'.sid # last'.dst) => ReadsUnchanged(last'.sid)
    /\ (Took("set") \/ Took("delete")) =>
           \A sid \in StoreSids \ {last'.sid} : ReadsUnchanged(sid)

C33_CopyDoesNotMove == [][C33_Step]_vars

\* after a copy into it, the destination has overwritten one of the copied keys; the
\* other copied key is still there and the source reads as it was written
C33_Witness ==
    /\ copied
    /\ last.op = "set"
    /\ last.key = <<"k">>
    /\ last.val = <<"y">>
    /\ \E src \in StoreSids \ {last.sid} :
           /\ MemEntry(mem, src, <<"k">>, now).val = SeedVal
           /\ RedisEntry(rdb, src, <<"k">>, now).val = SeedVal
           /\ MemEntry(mem, src, <<"k">>, now).exp = Expires(0, wlog[<<src, <<"k">>>>].ttl)
           /\ MemEntry(mem, last.sid, <<"n">>, now).val = SeedVal
           /\ RedisEntry(rdb, last.sid, <<"n">>, now).val = SeedVal
           /\ MemEntry(mem, last.sid, <<"k">>, now).val = <<"y">>
           /\ RedisEntry(rdb, last.sid, <<"k">>, now).val = <<"y">>

----------------------------------------------------------------------------
(* resilient_client.py, with the server behind the load balancer *)

\* the session id the transport issues for the n-th successful handshake
SidOf(n) == <<"s">> \o dumps(n)

\* the tools the caller invokes through call_tool
ToolNames == {"increment_counter", "get_counter"}

\* the store of the server process (server.py:21)
ServerData == IF backend = "memory" THEN mem ELSE rdb

ServerDataBecomes(data) ==
    /\ mem' = IF backend = "memory" THEN data ELSE mem
    /\ rdb' = IF backend = "redis" THEN data ELSE rdb

\* the server runs the tool under the session of the connection the request came on
RunTool(name, ctx_sid) ==
    IF name = "increment_counter"
    THEN increment_counter(backend, ServerData, ctx_sid, now)
    ELSE get_counter(backend, ServerData, ctx_sid, now)

\* history records
Event(kind) ==
    [kind |-> kind, name |-> "none", ret |-> NoneInt, err |-> "none", sid |-> NoneStr,
     tries |-> 0, reconnects |-> 0]

Returned(name, ret, err, sid, tries, reconnects) ==
    [kind |-> "call", name |-> name, ret |-> ret, err |-> err, sid |-> sid,
     tries |-> tries, reconnects |-> reconnects]

\* a fault of wrapper: the retry test is off by one
retry_test_off_by_one(attempt, retries) == attempt < retries

\* wrapper:  if attempt < self.max_retries - 1
ShouldRetry(attempt, retries) == attempt < retries - 1

\* a fault of _reconnect_and_resume: the old session is never resumed
never_resume(old_session_id) == FALSE

\* _reconnect_and_resume:  if old_session_id
ShouldResume(old_session_id) == old_session_id # NoneStr /\ old_session_id # <<>>

\* _connect: a new Client; the handshake succeeds when a backend is reachable
Connected ==
    [id |-> env.clients + 1, state |-> "open", sid |-> SidOf(env.issued + 1)]
Unconnected ==
    [id |-> env.clients + 1, state |-> "unconnected", sid |-> NoneStr]

\* __aenter__: the initial connect; its failure ends the program's  async with
Enter ==
    /\ pc = "init"
    /\ IF env.up
       THEN /\ client' = Connected
            /\ session_id' = Connected.sid
            /\ env' = [env EXCEPT !.clients = @ + 1, !.issued = @ + 1]
            /\ pc' = "idle"
            /\ log' = log
       ELSE /\ client' = Unconnected
            /\ session_id' = session_id
            /\ env' = [env EXCEPT !.clients = @ + 1]
            /\ pc' = "failed"
            /\ log' = Append(log, Returned("__aenter__", NoneInt, "connect", session_id, 0, 0))
    /\ UNCHANGED <<storeVars, backend, max_retries, call>>

\* the caller invokes client.<name>(...): wrapper starts its loop
\* for attempt in range(self.max_retries); an empty range returns None at once
StartCall(name) ==
    /\ pc = "idle"
    /\ env.calls < MaxCalls
    /\ env' = [env EXCEPT !.calls = @ + 1]
    /\ IF max_retries <= 0
       THEN /\ pc' = "idle"
            /\ call' = NoCall
            /\ log' = Append(log, Returned(name, NoneInt, "none", session_id, 0, 0))
       ELSE /\ pc' = "attempt"
            /\ call' = [NoCall EXCEPT !.name = name]
            /\ log' = log
    /\ UNCHANGED <<storeVars, backend, max_retries, client, session_id>>

\* except Exception: retry when attempts remain, else raise
AttemptFailed(events) ==
    IF ShouldRetry(call.attempt, max_retries)
    THEN /\ pc' = "sleep"
         /\ call' = [call EXCEPT !.tries = @ + 1]
         /\ log' = log \o events
    ELSE /\ pc' = "idle"
         /\ call' = NoCall
         /\ log' = log \o events \o
                   <<Returned(call.name, NoneInt, "op", session_id,
                              call.tries + 1, call.reconnects)>>

\* a fault of wrapper: the connection is closed after a successful attempt
attempt_ok_closing ==
    /\ pc = "attempt"
    /\ client.state = "open"
    /\ LET res == RunTool(call.name, client.sid)
       IN  /\ ServerDataBecomes(res.data)
           /\ log' = Append(log, Returned(call.name, res.ret.counter, "none", session_id,
                                          call.tries + 1, call.reconnects))
    /\ pc' = "idle"
    /\ call' = NoCall
    /\ client' = [client EXCEPT !.state = "closed"]
    /\ UNCHANGED <<now, last, wlog, copied, written, backend, max_retries, session_id, env>>

\* return await getattr(self._client, name)(*args, **kwargs): the request is served
AttemptOk ==
    /\ pc = "attempt"
    /\ client.state = "open"
    /\ LET res == RunTool(call.name, client.sid)
       IN  /\ ServerDataBecomes(res.data)
           /\ log' = Append(log, Returned(call.name, res.ret.counter, "none", session_id,
                                          call.tries + 1, call.reconnects))
    /\ pc' = "idle"
    /\ call' = NoCall
    /\ UNCHANGED <<now, last, wlog, copied, written, backend, max_retries, client,
                   session_id, env>>

\* the request is served but the connection breaks before the response arrives
AttemptLost ==
    /\ pc = "attempt"
    /\ client.state = "open"
    /\ env.faults < MaxFaults
    /\ ServerDataBecomes(RunTool(call.name, client.sid).data)
    /\ client' = [client EXCEPT !.state = "severed"]
    /\ env' = [env EXCEPT !.faults = @ + 1]
    /\ AttemptFailed(<<Event("lost")>>)
    /\ UNCHANGED <<now, last, wlog, copied, written, backend, max_retries, session_id>>

\* the request cannot be sent: the connection is gone or was never established
AttemptRefused ==
    /\ pc = "attempt"
    /\ client.state # "open"
    /\ AttemptFailed(<<>>)
    /\ UNCHANGED <<storeVars, backend, max_retries, client, session_id, env>>

\* a fault of wrapper: every retry waits the same delay
sleep_constant ==
    /\ pc = "sleep"
    /\ now' = now + 1
    /\ pc' = "teardown"
    /\ UNCHANGED <<mem, rdb, last, wlog, copied, written, backend, max_retries, client,
                   session_id, call, env, log>>

\* await asyncio.sleep(attempt + 1)
Sleep ==
    /\ pc = "sleep"
    /\ now' = now + call.attempt + 1
    /\ pc' = "teardown"
    /\ UNCHANGED <<mem, rdb, last, wlog, copied, written, backend, max_retries, client,
                   session_id, call, env, log>>

\* a fault of _reconnect_and_resume: an error of the teardown is not caught
teardown_raising(raised) ==
    /\ pc = "teardown"
    /\ raised => client.state # "open"
    /\ client' = [client EXCEPT !.state = "closed"]
    /\ IF raised
       THEN /\ pc' = "idle"
            /\ call' = NoCall
            /\ log' = Append(log, Returned(call.name, NoneInt, "teardown", session_id,
                                           call.tries, call.reconnects + 1))
       ELSE /\ pc' = "connect"
            /\ call' = [call EXCEPT !.old_session_id = session_id, !.reconnects = @ + 1]
            /\ log' = log
    /\ UNCHANGED <<storeVars, backend, max_retries, session_id, env>>

\* _reconnect_and_resume, first part: record the old id, close the old client;
\* __aexit__ may raise on a broken connection, which is swallowed
Teardown(raised) ==
    /\ pc = "teardown"
    /\ raised => client.state # "open"
    /\ call' = [call EXCEPT !.old_session_id = session_id,
                            !.reconnects = @ + 1,
                            !.absorbed = IF raised THEN @ \cup {"teardown"} ELSE @]
    /\ client' = [client EXCEPT !.state = "closed"]
    /\ pc' = "connect"
    /\ UNCHANGED <<storeVars, backend, max_retries, session_id, env, log>>

\* a fault of _reconnect_and_resume: the old session id is read after the connect
reconnect_recording_new_id ==
    /\ pc = "connect"
    /\ IF env.up
       THEN /\ client' = Connected
            /\ session_id' = Connected.sid
            /\ env' = [env EXCEPT !.clients = @ + 1, !.issued = @ + 1]
            /\ pc' = "resume"
            /\ call' = [call EXCEPT !.old_session_id = Connected.sid]
            /\ log' = log
       ELSE /\ client' = Unconnected
            /\ session_id' = session_id
            /\ env' = [env EXCEPT !.clients = @ + 1]
            /\ pc' = "idle"
            /\ call' = NoCall
            /\ log' = Append(log, Returned(call.name, NoneInt, "connect", session_id,
                                           call.tries, call.reconnects))
    /\ UNCHANGED <<storeVars, backend, max_retries>>

\* a fault of _connect: the recorded session id is cleared before the handshake
reconnect_forgetting_id ==
    /\ pc = "connect"
    /\ IF env.up
       THEN /\ client' = Connected
            /\ session_id' = Connected.sid
            /\ env' = [env EXCEPT !.clients = @ + 1, !.issued = @ + 1]
            /\ pc' = "resume"
            /\ call' = call
            /\ log' = log
       ELSE /\ client' = Unconnected
            /\ session_id' = NoneStr
            /\ env' = [env EXCEPT !.clients = @ + 1]
            /\ pc' = "idle"
            /\ call' = NoCall
            /\ log' = Append(log, Returned(call.name, NoneInt, "connect", session_id,
                                           call.tries, call.reconnects))
    /\ UNCHANGED <<storeVars, backend, max_retries>>

\* _reconnect_and_resume:  await self._connect() ; an exception of the handshake
\* leaves wrapper's except block and reaches the caller
Reconnect ==
    /\ pc = "connect"
    /\ IF env.up
       THEN /\ client' = Connected
            /\ session_id' = Connected.sid
            /\ env' = [env EXCEPT !.clients = @ + 1, !.issued = @ + 1]
            /\ pc' = "resume"
            /\ call' = call
            /\ log' = log
       ELSE /\ client' = Unconnected
            /\ session_id' = session_id
            /\ env' = [env EXCEPT !.clients = @ + 1]
            /\ pc' = "idle"
            /\ call' = NoCall
            /\ log' = Append(log, Returned(call.name, NoneInt, "connect", session_id,
                                           call.tries, call.reconnects))
    /\ UNCHANGED <<storeVars, backend, max_retries>>

\* a fault of _reconnect_and_resume: the resume call goes through wrapper, so its
\* failure starts a delay and a reconnect of its own
resume_through_wrapper ==
    /\ pc = "resume"
    /\ IF ShouldResume(call.old_session_id) /\ client.state = "open"
       THEN /\ ServerDataBecomes(
                   resume_session(backend, ServerData, client.sid, call.old_session_id, now).data)
            /\ call' = [call EXCEPT !.attempt = @ + 1]
            /\ pc' = "attempt"
       ELSE /\ UNCHANGED <<mem, rdb>>
            /\ call' = call
            /\ pc' = "sleep"
    /\ UNCHANGED <<now, last, wlog, copied, written, backend, max_retries, client,
                   session_id, env, log>>

\* _reconnect_and_resume, last part: call_tool("resume_session", ...) on the new
\* client, any exception swallowed; then the loop goes to its next attempt
Resume ==
    /\ pc = "resume"
    /\ IF ShouldResume(call.old_session_id) /\ client.state = "open"
       THEN /\ ServerDataBecomes(
                   resume_session(backend, ServerData, client.sid, call.old_session_id, now).data)
            /\ call' = [call EXCEPT !.attempt = @ + 1]
       ELSE /\ UNCHANGED <<mem, rdb>>
            /\ call' = [call EXCEPT !.attempt = @ + 1,
                            !.absorbed = IF ShouldResume(call.old_session_id)
                                         THEN @ \cup {"resume"} ELSE @]
    /\ pc' = "attempt"
    /\ UNCHANGED <<now, last, wlog, copied, written, backend, max_retries, client,
                   session_id, env, log>>

(* the environment *)

\* the connection is severed; the server process and its store live on
Sever ==
    /\ client.state = "open"
    /\ env.faults < MaxFaults
    /\ client' = [client EXCEPT !.state = "severed"]
    /\ env' = [env EXCEPT !.faults = @ + 1]
    /\ log' = Append(log, Event("sever"))
    /\ UNCHANGED <<storeVars, backend, max_retries, session_id, pc, call>>

\* every backend stops: no handshake completes, open connections die
BackendDown ==
    /\ env.up
    /\ env.faults < MaxFaults
    /\ env' = [env EXCEPT !.up = FALSE, !.faults = @ + 1]
    /\ client' = IF client.state = "open" THEN [client EXCEPT !.state = "severed"] ELSE client
    /\ log' = Append(log, Event("down"))
    /\ UNCHANGED <<storeVars, backend, max_retries, session_id, pc, call>>

\* the backends are started again; a restarted process builds a new
\* InMemorySessionStore (server.py:21), Redis keeps its keys
BackendUp ==
    /\ ~env.up
    /\ env' = [env EXCEPT !.up = TRUE]
    /\ mem' = Empty
    /\ log' = Append(log, Event("up"))
    /\ UNCHANGED <<now, rdb, last, wlog, copied, written, backend, max_retries, client,
                   session_id, pc, call>>

\* the caller stays idle for as long as a session's keys live
Idle ==
    /\ pc = "idle"
    /\ env.faults < MaxFaults
    /\ now' = now + SESSION_TTL
    /\ env' = [env EXCEPT !.faults = @ + 1]
    /\ log' = Append(log, Event("idle"))
    /\ UNCHANGED <<mem, rdb, last, wlog, copied, written, backend, max_retries, client,
                   session_id, pc, call>>

Init ==
    /\ InitStoreVars
    /\ InitClientVars
    /\ backend \in {"memory", "redis"}
    /\ max_retries \in 0..MaxRetries

Next ==
    \/ Enter
    \/ \E name \in ToolNames : StartCall(name)
    \/ AttemptOk
    \/ AttemptLost
    \/ AttemptRefused
    \/ Sleep
    \/ \E raised \in BOOLEAN : Teardown(raised)
    \/ Reconnect
    \/ Resume
    \/ Sever
    \/ BackendDown
    \/ BackendUp
    \/ Idle

Spec == Init /\ [][Next]_vars

----------------------------------------------------------------------------
(* Claims settled on the client-level specification *)

\* the completed calls of the tools, as the caller saw them
ToolCalls == {i \in 1..Len(log) : log[i].kind = "call" /\ log[i].name \in ToolNames}

\* log[1..i] is: n = i - 2 >= 1 increment_counter calls that returned 1..n on one
\* session, then the connection severed, then one more increment_counter call,
\* and nothing else happened
ResumeScenario(i) ==
    /\ i >= 3
    /\ log[i].kind = "call"
    /\ log[i].name = "increment_counter"
    /\ log[i - 1].kind = "sever"
    /\ \A j \in 1..(i - 2) :
           /\ log[j].kind = "call"
           /\ log[j].name = "increment_counter"
           /\ log[j].err = "none"
           /\ log[j].ret = j
           /\ log[j].sid = log[1].sid

\* C1 (retry and resume end to end): after n successful increment_counter calls on
\* session A (returning 1..n) and a severed connection, with no other event and a retry
\* budget that allows a retry (max_retries >= 2), the next increment_counter through
\* the wrapper returns n + 1, raises nothing, and leaves the wrapper on a session id
\* different from A.
C1_RetryAndResume ==
    \A i \in 1..Len(log) :
        (max_retries >= 2 /\ ResumeScenario(i)) =>
            /\ log[i].err = "none"
            /\ log[i].ret = i - 1
            /\ log[i].sid # log[1].sid

\* the scenario ran: the call after the severed connection needed a reconnect and
\* returned n + 1
C1_Witness ==
    \E i \in 1..Len(log) :
        /\ max_retries >= 2
        /\ ResumeScenario(i)
        /\ log[i].reconnects = 1
        /\ log[i].ret = i - 1

\* C4 (the caller only ever sees the underlying operation's error): every error a
\* wrapped call raises is the error of an attempt of the underlying operation, never
\* one produced by a teardown, reconnect or resume step.
C4_OnlyOperationErrorsSurface ==
    \A i \in ToolCalls : log[i].err \in {"none", "op"}

\* C5 (retry exhaustion with max_retries = 1): a wrapped call makes exactly one attempt
\* of the underlying operation and that attempt ends the call; when it fails, its error
\* is what the caller gets; the call never sleeps, reconnects or attempts again.
C5_RetryExhaustion ==
    max_retries = 1 =>
        /\ pc \in {"init", "failed", "idle", "attempt"}
        /\ call.tries = 0
        /\ call.reconnects = 0
        /\ \A i \in ToolCalls :
               /\ log[i].tries = 1
               /\ log[i].reconnects = 0
               /\ log[i].err \in {"none", "op"}

\* with max_retries = 1 and the backends down, a call failed after its one attempt
C5_Witness ==
    /\ max_retries = 1
    /\ ~env.up
    /\ \E i \in ToolCalls : log[i].err = "op" /\ log[i].tries = 1

\* C6 (only exhaustion is fatal to a call): a wrapped call raises only after
\* max_retries attempts of the underlying operation have failed; a failure of the
\* connect handshake inside a reconnect does not end the call earlier.
C6_OnlyExhaustionIsFatal ==
    \A i \in ToolCalls : log[i].err # "none" => log[i].tries = max_retries

\* the step completes a wrapped call whose first attempt succeeded
FirstAttemptSucceeds ==
    /\ pc = "attempt"
    /\ call.tries = 0
    /\ Len(log') = Len(log) + 1
    /\ log'[Len(log')].kind = "call"
    /\ log'[Len(log')].err = "none"

\* C15 (success on the first attempt): the call returns the result of the underlying
\* operation unchanged, and the wrapper's connection and recorded session id are what
\* they were: no teardown, no new connection, no resume, no delay.
C15_Step ==
    FirstAttemptSucceeds =>
        /\ log'[Len(log')].ret = RunTool(call.name, client.sid).ret.counter
        /\ log'[Len(log')].tries = 1
        /\ log'[Len(log')].reconnects = 0
        /\ client' = client
        /\ session_id' = session_id
        /\ env'.clients = env.clients
        /\ now' = now
        /\ pc' = "idle"

C15_SuccessLeavesStateUnchanged == [][C15_Step]_vars

\* two calls in a row succeeded on their first attempt, on the connection and the
\* session id the wrapper started with
C15_Witness ==
    /\ Len(log) >= 2
    /\ \A i \in 1..2 : /\ log[i].kind = "call"
                        /\ log[i].name = "increment_counter"
                        /\ log[i].err = "none"
                        /\ log[i].tries = 1
                        /\ log[i].ret = i
                        /\ log[i].sid = SidOf(1)
    /\ client.id = 1
    /\ client.state = "open"
    /\ session_id = SidOf(1)

\* C19 (reconnect ordering): after a failed attempt that is retried, the wrapper
\* records the session id it held at the failure, closes the old connection, opens a
\* new connection (a new Client with a new session id), calls resume_session with the
\* recorded id on the new connection, and only then makes the next attempt, which
\* goes out on the new connection and never on the closed one.
C19_Step ==
    /\ (pc = "attempt" /\ pc' # pc) => pc' \in {"idle", "sleep"}
    /\ (pc = "sleep" /\ pc' # pc) =>
           /\ pc' = "teardown"
           /\ session_id' = session_id
    /\ (pc = "teardown" /\ pc' # pc) =>
           /\ pc' = "connect"
           /\ call'.old_session_id = session_id
           /\ client'.id = client.id
           /\ client'.state = "closed"
    /\ (pc = "connect" /\ pc' # pc) =>
           /\ pc' \in {"resume", "idle"}
           /\ client'.id > client.id
           /\ pc' = "resume" =>
                  /\ client'.state = "open"
                  /\ session_id' = client'.sid
                  /\ session_id' # call.old_session_id
                  /\ call'.old_session_id = call.old_session_id
    /\ (pc = "resume" /\ pc' # pc) =>
           /\ pc' = "attempt"
           /\ client'.id = client.id
           /\ call.old_session_id \notin {NoneStr, <<>>}
           /\ IF client.state = "open"
              THEN <<mem', rdb'>> =
                       LET d == resume_session(backend, ServerData, client.sid,
                                               call.old_session_id, now).data
                       IN  IF backend = "memory" THEN <<d, rdb>> ELSE <<mem, d>>
              ELSE "resume" \in call'.absorbed /\ <<mem', rdb'>> = <<mem, rdb>>
    /\ (pc' = "attempt" /\ pc # pc' /\ call'.attempt > 0) => pc = "resume"
    /\ (pc = "attempt" /\ pc' # pc /\ call.attempt > 0) =>
           /\ client.id = env.clients
           /\ client.state # "closed"
           /\ call.reconnects = call.attempt

C19_ReconnectOrdering == [][C19_Step]_vars

\* a call failed on the first connection, and its retry succeeded on the second one
\* with the counter of the first session
C19_Witness ==
    /\ client.id = 2
    /\ session_id = SidOf(2)
    /\ \E i \in ToolCalls :
           /\ i >= 2
           /\ log[i].name = "get_counter"
           /\ log[i].err = "none"
           /\ log[i].tries = 2
           /\ log[i].reconnects = 1
           /\ log[i].ret >= 1
           /\ log[1].sid = SidOf(1)

\* C20 (place of the backoff delay): the delay is waited after the teardown, the new
\* connect handshake and the resume call of this failure have completed, and the next
\* step after the delay is the retry.
C20_Step ==
    (pc = "sleep" /\ pc' # pc) =>
        /\ now' > now
        /\ call.reconnects = call.tries
        /\ pc' = "attempt"

C20_DelayIsLastBeforeRetry == [][C20_Step]_vars

\* C21 (linear backoff): the delay waited before the k-th retry of a call, that is
\* after its k-th failed attempt, is k seconds; so the first retry waits 1 second and
\* each later retry of the same call waits one second more than the one before.
C21_Step ==
    (pc = "sleep" /\ pc' # pc) =>
        /\ call.tries = call.attempt + 1
        /\ now' - now = call.tries

C21_LinearBackoff == [][C21_Step]_vars

\* a call has waited before its first and before its second retry: 1 + 2 seconds
C21_Witness ==
    /\ pc = "teardown"
    /\ call.tries = 2
    /\ call.reconnects = 1
    /\ now = 3

\* C22 (retry bound): with max_retries = N >= 1 a wrapped call invokes the underlying
\* operation at most N times and reconnects at most N - 1 times, once after each
\* failed attempt except the last; it raises only when the N-th attempt has failed.
C22_RetryBound ==
    max_retries >= 1 =>
        /\ call.tries <= max_retries
        /\ call.reconnects <= max_retries - 1
        /\ \A i \in ToolCalls :
               /\ log[i].tries \in 1..max_retries
               /\ log[i].reconnects = log[i].tries - 1
               /\ log[i].err # "none" => log[i].tries = max_retries

\* C23 (teardown and resume errors are absorbed): when the teardown of the old
\* connection raises, the connect handshake still follows; when the resume call fails,
\* the retry of the original call still follows; neither error is raised to the caller.
C23_Step ==
    /\ ("teardown" \in call'.absorbed \ call.absorbed) =>
           /\ pc = "teardown"
           /\ pc' = "connect"
           /\ log' = log
    /\ ("resume" \in call'.absorbed \ call.absorbed) =>
           /\ pc = "resume"
           /\ pc' = "attempt"
           /\ log' = log
    /\ (pc \in {"teardown", "resume"} /\ pc' # pc) => log' = log
    /\ \A i \in 1..Len(log') : log'[i].err \notin {"teardown", "resume"}

C23_TeardownAndResumeErrorsAbsorbed == [][C23_Step]_vars

\* within one call a teardown raised and a resume call failed, and the call is at its
\* next attempt
C23_Witness ==
    /\ pc = "attempt"
    /\ call.attempt >= 1
    /\ call.absorbed = {"teardown", "resume"}

\* C24 (the resume call is outside the retry machinery): a reconnect issues one
\* resume_session call, after its connect; when that call returns or fails the wrapper
\* goes on to the next attempt of the original call, with no further teardown, connect,
\* resume or delay.
C24_Step ==
    /\ (pc' = "resume" /\ pc # pc') => pc = "connect"
    /\ (pc = "resume" /\ pc' # pc) =>
           /\ pc' = "attempt"
           /\ call'.attempt = call.attempt + 1
           /\ call'.reconnects = call.reconnects
           /\ call'.tries = call.tries
           /\ client' = client
           /\ session_id' = session_id
           /\ env' = env
           /\ now' = now

C24_ResumeNotRetried == [][C24_Step]_vars

\* the resume call of the only reconnect of a call failed, two Client objects exist,
\* and the call is at its second attempt
C24_Witness ==
    /\ pc = "attempt"
    /\ call.attempt = 1
    /\ call.reconnects = 1
    /\ "resume" \in call.absorbed
    /\ "teardown" \notin call.absorbed
    /\ env.clients = 2

\* before the i-th record nothing happened but calls that returned and responses
\* that were lost: no call raised, no session expired, no backend stopped
OnlyLostResponsesBefore(i) ==
    \A j \in 1..(i - 1) :
        \/ log[j].kind = "lost"
        \/ log[j].kind = "call" /\ log[j].name \in ToolNames /\ log[j].err = "none"

\* C27 (exactly-once effect): an increment_counter call that returns to the caller
\* has raised the counter by exactly 1, also when a response was lost and the call
\* was retried: the call returns 1 + the number of increment_counter calls that
\* returned before it.
C27_ExactlyOnce ==
    \A i \in ToolCalls :
        (/\ log[i].name = "increment_counter"
         /\ log[i].err = "none"
         /\ log[i].tries >= 1
         /\ OnlyLostResponsesBefore(i)) =>
            log[i].ret = 1 + Cardinality({j \in 1..(i - 1) :
                                             /\ log[j].kind = "call"
                                             /\ log[j].name = "increment_counter"})

\* the counter is stored and live under session sid, in the store the server uses
CounterLive(sid) == ~Session_get(backend, ServerData, sid, COUNTER, now).none

\* C28 (state survives chained reconnects): whenever the wrapper is between calls on an
\* open connection, after any number of reconnects, and the counter written under the
\* first session is still live in the store, the session in use holds the counter too.
C28_StateSurvivesChainedReconnects ==
    (pc = "idle" /\ client.state = "open" /\ CounterLive(SidOf(1))) =>
        CounterLive(session_id)

\* C30 (no result without a successful invocation): a wrapped call that returns a
\* value has invoked the underlying operation at least once, for every max_retries.
C30_NoResultWithoutInvocation ==
    \A i \in ToolCalls : log[i].err = "none" => log[i].tries >= 1

\* C31 (the session id to resume from is never lost): the recorded session id is the
\* id of the last session whose handshake completed; it changes only in a step in which
\* a handshake completes, so a reconnect whose handshake fails leaves it as it was, and
\* every resume_session call carries the id of the session established before the one
\* the call is sent on.
C31_Step ==
    /\ session_id = (IF env.issued = 0 THEN NoneStr ELSE SidOf(env.issued))
    /\ session_id' # session_id =>
           /\ pc \in {"init", "connect"}
           /\ client'.state = "open"
           /\ env'.issued = env.issued + 1
           /\ session_id' = client'.sid
    /\ (pc = "connect" /\ client'.state # "open") => session_id' = session_id
    /\ (pc = "resume" /\ pc' = "attempt") =>
           /\ env.issued >= 2
           /\ call.old_session_id = SidOf(env.issued - 1)

C31_SessionIdNeverLost == [][C31_Step]_vars

\* a reconnect's handshake failed, and the next call's reconnect has resumed from the
\* session established before the failure
C31_Witness ==
    /\ \E i \in ToolCalls : log[i].err = "connect"
    /\ pc = "attempt"
    /\ call.reconnects >= 1
    /\ call.old_session_id = SidOf(1)
    /\ session_id = SidOf(2)
    /\ client.state = "open"
    /\ "resume" \notin call.absorbed

\* the backends are reachable after the i-th record: they never stopped, or were
\* started again after the last stop
BackendUpAfter(i) ==
    \A d \in 1..i : log[d].kind = "down" =>
        \E u \in (d + 1)..i : log[u].kind = "up"

\* the i-th record is a call that raised after its last attempt failed, and the next
\* record is the next call, made with the backends reachable and nothing else
\* happening before or during it
NextCallAfterExhaustion(i) ==
    /\ i \in ToolCalls
    /\ (i + 1) \in ToolCalls
    /\ log[i].err = "op"
    /\ BackendUpAfter(i)

\* C32 (recovery after a terminal failure): for every max_retries >= 1, when a call
\* ended by exhausting its retry budget and the backend is and stays available, the
\* next call on the same ResilientClient returns successfully, on a session established
\* after the failure.
C32_RecoveryAfterExhaustion ==
    max_retries >= 1 =>
        \A i \in 1..Len(log) :
            NextCallAfterExhaustion(i) =>
                /\ log[i + 1].err = "none"
                /\ log[i + 1].sid # log[i].sid

----------------------------------------------------------------------------
(* server.py: the /health route, with a store that may be unreachable *)

MaxProbes == 5      \* GET /health requests per behaviour

\* InMemorySessionStore.ping: return True
InMemorySessionStore_ping == "true"

\* RedisSessionStore.ping: PING answers True, or the connection raises
RedisSessionStore_ping(reachable) == IF reachable THEN "true" ELSE "raise"

SessionStore_ping(kind, reachable) ==
    IF kind = "memory" THEN InMemorySessionStore_ping ELSE RedisSessionStore_ping(reachable)

\* a fault of health: the failure of ping is not caught
health_unguarded(kind, reachable) ==
    LET p == SessionStore_ping(kind, reachable)
    IN  IF p = "raise"
        THEN [ping |-> p, raised |-> TRUE, status |-> "none", status_code |-> 500]
        ELSE [ping |-> p, raised |-> FALSE, status |-> "ok", status_code |-> 200]

\* health: try: await store.ping() ; "ok"   except Exception: "degraded", 503
health(kind, reachable) ==
    LET p == SessionStore_ping(kind, reachable)
    IN  IF p = "raise"
        THEN [ping |-> p, raised |-> FALSE, status |-> "degraded", status_code |-> 503]
        ELSE [ping |-> p, raised |-> FALSE, status |-> "ok", status_code |-> 200]

\* the server process is alive; a load balancer probes it
InitHealth ==
    /\ InitStoreVars
    /\ client = NoClient
    /\ session_id = NoneStr
    /\ pc = "idle"
    /\ call = NoCall
    /\ max_retries = 0
    /\ backend \in {"memory", "redis"}
    /\ env = [store_up |-> TRUE, probes |-> 0]
    /\ log = <<>>

\* GET /health
Probe ==
    /\ env.probes < MaxProbes
    /\ env' = [env EXCEPT !.probes = @ + 1]
    /\ log' = Append(log, health(backend, env.store_up))
    /\ UNCHANGED <<storeVars, backend, max_retries, client, session_id, pc, call>>

\* the network store stops answering
StoreUnreachable ==
    /\ env.store_up
    /\ env' = [env EXCEPT !.store_up = FALSE]
    /\ UNCHANGED <<storeVars, backend, max_retries, client, session_id, pc, call, log>>

\* the network store answers again
StoreReachable ==
    /\ ~env.store_up
    /\ env' = [env EXCEPT !.store_up = TRUE]
    /\ UNCHANGED <<storeVars, backend, max_retries, client, session_id, pc, call, log>>

NextHealth ==
    \/ Probe
    \/ StoreUnreachable
    \/ StoreReachable

SpecHealth == InitHealth /\ [][NextHealth]_vars

\* C16 (health probe): every probe is answered, none fails with the error of ping;
\* the answer is status "ok" only if ping succeeded, and status "degraded" whenever
\* ping failed.
C16_HealthProbe ==
    \A i \in 1..Len(log) :
        /\ ~log[i].raised
        /\ log[i].status = "ok" => log[i].ping = "true"
        /\ log[i].ping = "raise" => log[i].status = "degraded"

\* a probe found the store unreachable and answered "degraded", a later one found it
\* reachable and answered "ok"
C16_Witness ==
    \E i \in 1..Len(log), j \in 1..Len(log) :
        /\ i < j
        /\ log[i].ping = "raise"
        /\ log[i].status = "degraded"
        /\ log[i].status_code = 503
        /\ log[j].ping = "true"
        /\ log[j].status = "ok"

----------------------------------------------------------------------------
(* server.py: the note tools, and the tools called in sequence by one caller *)

\* the session key of the note list
NOTES == <<"n", "o", "t", "e", "s">>

\* the note texts the caller adds
NoteTexts == {<<"a">>, <<"b">>}

\* json.dumps of a list of str:  ["a", "b"]
RECURSIVE dumps_items(_, _)
dumps_items(notes, i) ==
    IF i > Len(notes) THEN <<>>
    ELSE (IF i > 1 THEN <<",", " ">> ELSE <<>>) \o <<"\"">> \o notes[i] \o <<"\"">>
         \o dumps_items(notes, i + 1)

dumps_notes(notes) == <<"[">> \o dumps_items(notes, 1) \o <<"]">>

\* json.loads of the text of a list of str: the items between the quotes, in order
RECURSIVE loads_items(_, _, _, _, _)
loads_items(s, i, in_string, cur, acc) ==
    IF i >= Len(s) THEN acc
    ELSE IF s[i] = "\""
         THEN IF in_string THEN loads_items(s, i + 1, FALSE, <<>>, Append(acc, cur))
              ELSE loads_items(s, i + 1, TRUE, <<>>, acc)
    ELSE IF in_string THEN loads_items(s, i + 1, TRUE, Append(cur, s[i]), acc)
    ELSE loads_items(s, i + 1, FALSE, cur, acc)

loads_notes(s) ==
    IF Len(s) >= 2 /\ s[1] = "[" /\ s[Len(s)] = "]"
    THEN [ok |-> TRUE, val |-> loads_items(s, 2, FALSE, <<>>, <<>>)]
    ELSE [ok |-> FALSE, val |-> <<>>]

\* await s.get("notes") or []
get_notes(kind, data, ctx_sid, t) ==
    LET raw == SessionStore_get(kind, data, ctx_sid, NOTES, t)
    IN  [data |-> raw.data,
         ret  |-> IF raw.ret = NoneStr THEN <<>> ELSE loads_notes(raw.ret).val]

\* a fault of add_note: the note is put in front of the list
add_note_prepending(kind, data, ctx_sid, note, t) ==
    LET g     == get_notes(kind, data, ctx_sid, t)
        notes == <<note>> \o g.ret
        w     == SessionStore_set(kind, g.data, ctx_sid, NOTES, dumps_notes(notes),
                                  SESSION_TTL, t)
    IN  [data |-> w.data, ret |-> Len(notes)]

\* add_note: notes.append(note) ; s.set("notes", notes) ; ret is notes_count
add_note(kind, data, ctx_sid, note, t) ==
    LET g     == get_notes(kind, data, ctx_sid, t)
        notes == Append(g.ret, note)
        w     == SessionStore_set(kind, g.data, ctx_sid, NOTES, dumps_notes(notes),
                                  SESSION_TTL, t)
    IN  [data |-> w.data, ret |-> Len(notes)]

\* list_notes: ret is notes
list_notes(kind, data, ctx_sid, t) == get_notes(kind, data, ctx_sid, t)

\* history record of a tool call served
Served(name, sid, arg, ret) ==
    [kind |-> "tool", name |-> name, sid |-> sid, arg |-> arg, ret |-> ret]

\* two sessions are open on one server; the caller is between calls
InitTools ==
    /\ InitStoreVars
    /\ client = NoClient
    /\ session_id = NoneStr
    /\ pc = "idle"
    /\ call = NoCall
    /\ max_retries = 0
    /\ backend \in {"memory", "redis"}
    /\ env = [up |-> TRUE, issued |-> 2, clients |-> 2, faults |-> 0, calls |-> 0]
    /\ log = <<>>

\* one tool call, served by the server under session sid
Serve(name, sid, arg, res) ==
    /\ env.calls < MaxCalls
    /\ env' = [env EXCEPT !.calls = @ + 1]
    /\ ServerDataBecomes(res.data)
    /\ log' = Append(log, Served(name, sid, arg, res.ret))
    /\ UNCHANGED <<now, last, wlog, copied, written, backend, max_retries, client,
                   session_id, pc, call>>

CallIncrementCounter(sid) ==
    LET res == increment_counter(backend, ServerData, sid, now)
    IN  Serve("increment_counter", sid, <<>>, [data |-> res.data, ret |-> res.ret.counter])

CallGetCounter(sid) ==
    LET res == get_counter(backend, ServerData, sid, now)
    IN  Serve("get_counter", sid, <<>>, [data |-> res.data, ret |-> res.ret.counter])

CallAddNote(sid, note) ==
    Serve("add_note", sid, note, add_note(backend, ServerData, sid, note, now))

CallListNotes(sid) ==
    Serve("list_notes", sid, <<>>, list_notes(backend, ServerData, sid, now))

NextTools ==
    \/ \E n \in 1..2 : CallIncrementCounter(SidOf(n))
    \/ \E n \in 1..2 : CallGetCounter(SidOf(n))
    \/ \E n \in 1..2, note \in NoteTexts : CallAddNote(SidOf(n), note)
    \/ \E n \in 1..2 : CallListNotes(SidOf(n))
    \/ Idle

SpecTools == InitTools /\ [][NextTools]_vars

\* the calls of one tool under one session before the i-th record of the history
CallsBefore(i, name, sid) ==
    {j \in 1..(i - 1) : log[j].kind = "tool" /\ log[j].name = name /\ log[j].sid = sid}

\* the notes added under sid before the i-th record, in the order they were added
RECURSIVE NotesBefore(_, _)
NotesBefore(i, sid) ==
    IF i <= 1 THEN <<>>
    ELSE IF (i - 1) \in CallsBefore(i, "add_note", sid)
         THEN Append(NotesBefore(i - 1, sid), log[i - 1].arg)
    ELSE NotesBefore(i - 1, sid)

\* no period of SESSION_TTL without a call lies before the i-th record
NoExpiryBefore(i) == \A j \in 1..i : log[j].kind # "idle"

\* C17 (read-after-write within one session): for calls issued one after the other
\* under a session whose keys have not expired, the k-th increment_counter returns k,
\* get_counter returns the number of increments made so far (0 on a fresh session),
\* and list_notes returns the notes added so far in the order they were added.
C17_ReadAfterWrite ==
    \A i \in 1..Len(log) :
        (log[i].kind = "tool" /\ NoExpiryBefore(i)) =>
            /\ log[i].name = "increment_counter" =>
                   log[i].ret = Cardinality(CallsBefore(i, "increment_counter", log[i].sid)) + 1
            /\ log[i].name = "get_counter" =>
                   log[i].ret = Cardinality(CallsBefore(i, "increment_counter", log[i].sid))
            /\ log[i].name = "list_notes" =>
                   log[i].ret = NotesBefore(i, log[i].sid)

\* two different notes were added under one session, and list_notes returned them in
\* that order
C17_Witness ==
    \E i \in 1..Len(log) :
        /\ log[i].kind = "tool"
        /\ log[i].name = "list_notes"
        /\ NoExpiryBefore(i)
        /\ Len(log[i].ret) = 2
        /\ log[i].ret[1] # log[i].ret[2]
        /\ log[i].ret = NotesBefore(i, log[i].sid)

----------------------------------------------------------------------------
(* resilient_client.py: two coroutines calling through one ResilientClient *)

\* asyncio runs one coroutine at a time and switches only at an await, so each action
\* below is the code of one coroutine from one await to the next.  The two coroutines
\* share self._client and self._session_id; old_session_id and the objects a coroutine
\* is awaiting on are its own.  In this specification
\*   client      is the index in env.objs of the Client that self._client refers to,
\*   env.objs    are the Client objects made so far, each with a state and a session id,
\*   env.sent    are the states the connections were in when a resume call was sent,
\*   pc, call    are functions of the coroutine.
\* The delays of the two coroutines start at unrelated times, so a coroutine may wake
\* at any point of the other's reconnect; the clock stays put (the delays are far
\* below SESSION_TTL).
Coroutines == {1, 2}

NoCoCall ==
    [attempt |-> 0, old_session_id |-> NoneStr, closing |-> 0, mine |-> 0,
     sent_on |-> 0, sent_open |-> FALSE, ret |-> NoneInt]

\* the session in use before the failure holds a counter; its connection has dropped,
\* and both coroutines are about to make their first attempt
InitTwoCallers ==
    /\ now = 0
    /\ backend \in {"memory", "redis"}
    /\ mem = IF backend = "memory"
             THEN increment_counter("memory", Empty, SidOf(1), 0).data ELSE Empty
    /\ rdb = IF backend = "redis"
             THEN increment_counter("redis", Empty, SidOf(1), 0).data ELSE Empty
    /\ last = [n |-> 0, op |-> "none", sid |-> <<>>, key |-> <<>>, val |-> <<>>,
               dst |-> <<>>, ttl |-> NoneInt, at |-> 0, m |-> NoneStr, r |-> NoneStr]
    /\ wlog = [a \in StoreSids \X StoreKeys |-> NoWrite]
    /\ copied = FALSE
    /\ written = {}
    /\ max_retries \in 2..MaxRetries
    /\ client = 1
    /\ session_id = SidOf(1)
    /\ env = [objs |-> <<[state |-> "severed", sid |-> SidOf(1)]>>, issued |-> 1,
              sent |-> {}]
    /\ pc = [c \in Coroutines |-> "attempt"]
    /\ call = [c \in Coroutines |-> NoCoCall]
    /\ log = <<>>

\* wrapper: return await getattr(self._client, name)(*args, **kwargs), on the Client
\* that self._client refers to now; the server serves get_counter
CoAttemptOk(c) ==
    /\ pc[c] = "attempt"
    /\ env.objs[client].state = "open"
    /\ LET res == RunTool("get_counter", env.objs[client].sid)
       IN  /\ ServerDataBecomes(res.data)
           /\ call' = [call EXCEPT ![c].ret = res.ret.counter]
    /\ pc' = [pc EXCEPT ![c] = "done"]
    /\ UNCHANGED <<now, last, wlog, copied, written, backend, max_retries, client,
                   session_id, env, log>>

\* wrapper: the attempt raises (the connection is gone or not established yet);
\* except Exception: start the delay when attempts remain, else raise
CoAttemptRefused(c) ==
    /\ pc[c] = "attempt"
    /\ env.objs[client].state # "open"
    /\ pc' = [pc EXCEPT ![c] = IF ShouldRetry(call[c].attempt, max_retries)
                               THEN "sleep" ELSE "failed"]
    /\ UNCHANGED <<storeVars, backend, max_retries, client, session_id, call, env, log>>

\* asyncio.sleep returns; _reconnect_and_resume reads self._session_id and starts
\* __aexit__ on the Client that self._client refers to now
CoWake(c) ==
    /\ pc[c] = "sleep"
    /\ call' = [call EXCEPT ![c].old_session_id = session_id, ![c].closing = client]
    /\ pc' = [pc EXCEPT ![c] = "teardown"]
    /\ UNCHANGED <<storeVars, backend, max_retries, client, session_id, env, log>>

\* __aexit__ returns or raises (swallowed); _connect makes a new Client, binds
\* self._client to it and starts its handshake.  Closing a Client whose handshake is
\* still running either tears it down or has no effect.
CoTeardown(c, closes) ==
    /\ pc[c] = "teardown"
    /\ ~closes => env.objs[call[c].closing].state = "connecting"
    /\ LET closed == IF closes
                     THEN [env.objs EXCEPT ![call[c].closing].state = "closed"]
                     ELSE env.objs
       IN  env' = [env EXCEPT !.objs = Append(closed, [state |-> "connecting",
                                                        sid |-> NoneStr])]
    /\ client' = Len(env.objs) + 1
    /\ call' = [call EXCEPT ![c].mine = Len(env.objs) + 1]
    /\ pc' = [pc EXCEPT ![c] = "connect"]
    /\ UNCHANGED <<storeVars, backend, max_retries, session_id, log>>

\* the handshake of the coroutine's own Client ends.  When it succeeded, _connect
\* stores the session id of the Client self._client refers to now (None while that
\* one is not connected), and _reconnect_and_resume sends resume_session on the Client
\* self._client refers to now.  When the Client was closed meanwhile, __aenter__
\* raises and the call raises with it.
CoConnect(c) ==
    /\ pc[c] = "connect"
    /\ IF env.objs[call[c].mine].state = "connecting"
       THEN LET objs == [env.objs EXCEPT ![call[c].mine] =
                             [state |-> "open", sid |-> SidOf(env.issued + 1)]]
                cur  == objs[client]
                send == ShouldResume(call[c].old_session_id)
            IN  /\ session_id' = IF cur.state = "open" THEN cur.sid ELSE NoneStr
                /\ env' = [env EXCEPT !.objs = objs, !.issued = @ + 1,
                                      !.sent = IF send THEN @ \cup {cur.state} ELSE @]
                /\ call' = [call EXCEPT ![c].sent_on = IF send THEN client ELSE @,
                                        ![c].sent_open = send /\ cur.state = "open",
                                        ![c].attempt = IF send THEN @ ELSE @ + 1]
                /\ pc' = [pc EXCEPT ![c] = IF send THEN "resume" ELSE "attempt"]
       ELSE /\ pc' = [pc EXCEPT ![c] = "failed"]
            /\ UNCHANGED <<session_id, env, call>>
    /\ UNCHANGED <<storeVars, backend, max_retries, client, log>>

\* the resume call ends: served when it was sent on an open connection that is still
\* open, else it raised and  except Exception  swallowed it; then the next attempt
CoResume(c) ==
    /\ pc[c] = "resume"
    /\ IF call[c].sent_open /\ env.objs[call[c].sent_on].state = "open"
       THEN ServerDataBecomes(
                resume_session(backend, ServerData, env.objs[call[c].sent_on].sid,
                               call[c].old_session_id, now).data)
       ELSE UNCHANGED <<mem, rdb>>
    /\ call' = [call EXCEPT ![c].attempt = @ + 1]
    /\ pc' = [pc EXCEPT ![c] = "attempt"]
    /\ UNCHANGED <<now, last, wlog, copied, written, backend, max_retries, client,
                   session_id, env, log>>

NextTwoCallers ==
    \/ \E c \in Coroutines : CoAttemptOk(c)
    \/ \E c \in Coroutines : CoAttemptRefused(c)
    \/ \E c \in Coroutines : CoWake(c)
    \/ \E c \in Coroutines : \E closes \in BOOLEAN : CoTeardown(c, closes)
    \/ \E c \in Coroutines : CoConnect(c)
    \/ \E c \in Coroutines : CoResume(c)

SpecTwoCallers == InitTwoCallers /\ [][NextTwoCallers]_vars

\* every resume call was sent on a connection whose handshake had completed
ResumeSentOnEstablished == env.sent \subseteq {"open"}

\* once both calls have returned, the session in use holds the counter of the session
\* that was in use before the failure
StateKeptForBoth ==
    (\A c \in Coroutines : pc[c] = "done") =>
        /\ session_id # NoneStr
        /\ Session_get(backend, ServerData, session_id, COUNTER, now) =
               Session_get(backend, ServerData, SidOf(1), COUNTER, now)

\* C29 (concurrent callers on one wrapper): when two coroutines call through the same
\* ResilientClient and both attempts fail, under every interleaving of their reconnects
\* each resume call is sent on a fully established connection, and once both calls have
\* returned the session in use holds the state of the session in use before the failure.
C29_ConcurrentCallers == ResumeSentOnEstablished /\ StateKeptForBoth

----------------------------------------------------------------------------
(* server.py: increment_counter requests of one client served concurrently *)

\* increment_counter reads the counter, awaits, and writes it back.  With the Redis store
\* both awaits are network round trips, so requests (served by one process or by several
\* behind the load balancer) interleave between the read and the write.  With the
\* in-memory store neither await suspends, so the tool runs in one step.  In this
\* specification
\*   pc, call    are functions of the request: "idle" (not sent), "read", "done",
\*   session_id  is the session the client sends its next request under,
\*   env.resumed tells whether the client has moved to its second session.
Requests == 1..MaxCalls

NoRequest == [sid |-> NoneStr, val |-> NoneInt, ret |-> NoneInt]

InitIncrements ==
    /\ InitStoreVars
    /\ backend \in {"memory", "redis"}
    /\ max_retries = 0
    /\ client = NoClient
    /\ session_id = SidOf(1)
    /\ env = [resumed |-> FALSE]
    /\ pc = [r \in Requests |-> "idle"]
    /\ call = [r \in Requests |-> NoRequest]
    /\ log = <<>>

\* the in-memory store: get_session, session.get, session.set and the return run
\* without the event loop switching
IncrementInMemory(r) ==
    /\ backend = "memory"
    /\ pc[r] = "idle"
    /\ LET res == increment_counter("memory", mem, session_id, now)
       IN  /\ mem' = res.data
           /\ call' = [call EXCEPT ![r] = [sid |-> session_id, val |-> res.ret.counter,
                                           ret |-> res.ret.counter]]
    /\ pc' = [pc EXCEPT ![r] = "done"]
    /\ UNCHANGED <<now, rdb, last, wlog, copied, written, backend, max_retries, client,
                   session_id, env, log>>

\* val = await session.get("counter", 0) + 1
IncrementGet(r) ==
    /\ backend = "redis"
    /\ pc[r] = "idle"
    /\ LET g == Session_get("redis", rdb, session_id, COUNTER, now)
       IN  /\ rdb' = g.data
           /\ call' = [call EXCEPT ![r] =
                           [sid |-> session_id,
                            val |-> (IF g.none THEN 0 ELSE g.json.val) + 1,
                            ret |-> NoneInt]]
    /\ pc' = [pc EXCEPT ![r] = "read"]
    /\ UNCHANGED <<now, mem, last, wlog, copied, written, backend, max_retries, client,
                   session_id, env, log>>

\* await session.set("counter", val); return {"counter": val}
IncrementSet(r) ==
    /\ backend = "redis"
    /\ pc[r] = "read"
    /\ rdb' = Session_set("redis", rdb, call[r].sid, COUNTER, call[r].val, SESSION_TTL,
                          now).data
    /\ call' = [call EXCEPT ![r].ret = call[r].val]
    /\ pc' = [pc EXCEPT ![r] = "done"]
    /\ UNCHANGED <<now, mem, last, wlog, copied, written, backend, max_retries, client,
                   session_id, env, log>>

\* the client reconnects: resume_session copies the first session into the second,
\* which the client uses from then on; requests already read keep their session
ResumeDuringRequests ==
    /\ ~env.resumed
    /\ ServerDataBecomes(resume_session(backend, ServerData, SidOf(2), SidOf(1), now).data)
    /\ session_id' = SidOf(2)
    /\ env' = [env EXCEPT !.resumed = TRUE]
    /\ UNCHANGED <<now, last, wlog, copied, written, backend, max_retries, client, pc,
                   call, log>>

NextIncrements ==
    \/ \E r \in Requests : IncrementInMemory(r)
    \/ \E r \in Requests : IncrementGet(r)
    \/ \E r \in Requests : IncrementSet(r)
    \/ ResumeDuringRequests

SpecIncrements == InitIncrements /\ [][NextIncrements]_vars

CompletedIncrements == {r \in Requests : pc[r] = "done"}

\* the counter of the session in use, 0 when it is not stored
CounterInUse ==
    LET g == Session_get(backend, ServerData, session_id, COUNTER, now)
    IN  IF g.none THEN 0 ELSE g.json.val

\* C34 (no lost update on the counter): under every interleaving of increment_counter
\* requests, among them a request still running on the old session while the session is
\* resumed, when no request is in progress the counter equals the number of completed
\* increment_counter calls and the calls returned pairwise distinct values.
C34_NoLostUpdate ==
    (\A r \in Requests : pc[r] # "read") =>
        /\ CounterInUse = Cardinality(CompletedIncrements)
        /\ \A r1, r2 \in CompletedIncrements : r1 # r2 => call[r1].ret # call[r2].ret

----------------------------------------------------------------------------
(* redis_store.py: copy_session of a list, with a second copy and readers alongside *)

\* copy_session sends each Redis command in a round trip of its own, so other clients
\* of the Redis server act between them.  Two callers copy session "a", which holds one
\* list, into session "b" with ttl SESSION_TTL (two resume_session calls that name the
\* same sessions), and a reader looks at the destination key at any moment.  The reads
\* of the source (SCAN, TYPE, LRANGE) are one step, as nothing writes the source.  In
\* this specification
\*   pc, call     are functions of the caller: "scan", "delete", "rpush", "expire", "done",
\*   env.seen     are the reader's observations of the destination key,
\*   env.was_live tells whether the destination key was live before the copies.
Copiers == {1, 2}

CopySrc == <<"a">>
CopyDst == <<"b">>
CopyKey == <<"k">>

NoCopy == [values |-> <<>>]

InitCopyRace ==
    /\ now = 0
    /\ mem = Empty
    /\ last = [n |-> 0, op |-> "none", sid |-> <<>>, key |-> <<>>, val |-> <<>>,
               dst |-> <<>>, ttl |-> NoneInt, at |-> 0, m |-> NoneStr, r |-> NoneStr]
    /\ wlog = [a \in StoreSids \X StoreKeys |-> NoWrite]
    /\ copied = FALSE
    /\ written = {}
    /\ backend = "redis"
    /\ max_retries = 0
    /\ client = NoClient
    /\ session_id = NoneStr
    /\ log = <<>>
    /\ pc = [c \in Copiers |-> "scan"]
    /\ call = [c \in Copiers |-> NoCopy]
    /\ \E values \in ShapeLists, earlier \in ShapeLists \cup {<<>>} :
           LET src == RedisRPush(Empty, fqkey(CopySrc, CopyKey), values, 0)
               dst == IF earlier = <<>> THEN src
                      ELSE RedisExpire(RedisRPush(src, fqkey(CopyDst, CopyKey), earlier, 0),
                                       fqkey(CopyDst, CopyKey), SESSION_TTL, 0)
           IN  /\ rdb = dst
               /\ env = [seen |-> {}, was_live |-> earlier # <<>>]

\* scan_iter, TYPE and LRANGE old_key 0 -1; an empty or missing list is not copied
CopierScan(c) ==
    /\ pc[c] = "scan"
    /\ LET old_key == fqkey(CopySrc, CopyKey)
           found   == old_key \in scan_iter(rdb, SessionPrefix(CopySrc) \o STAR, now)
                      /\ RedisType(rdb, old_key, now) = "list"
                      /\ rdb[old_key].val # <<>>
       IN  /\ call' = [call EXCEPT ![c].values = IF found THEN rdb[old_key].val ELSE <<>>]
           /\ pc' = [pc EXCEPT ![c] = IF found THEN "delete" ELSE "done"]
    /\ UNCHANGED <<storeVars, backend, max_retries, client, session_id, env, log>>

\* await self._rdb.delete(new_key)
CopierDelete(c) ==
    /\ pc[c] = "delete"
    /\ rdb' = RedisDel(rdb, fqkey(CopyDst, CopyKey), now)
    /\ pc' = [pc EXCEPT ![c] = "rpush"]
    /\ UNCHANGED <<now, mem, last, wlog, copied, written, backend, max_retries, client,
                   session_id, call, env, log>>

\* await self._rdb.rpush(new_key, *values)
CopierRPush(c) ==
    /\ pc[c] = "rpush"
    /\ rdb' = RedisRPush(rdb, fqkey(CopyDst, CopyKey), call[c].values, now)
    /\ pc' = [pc EXCEPT ![c] = "expire"]
    /\ UNCHANGED <<now, mem, last, wlog, copied, written, backend, max_retries, client,
                   session_id, call, env, log>>

\* if ttl is not None: await self._rdb.expire(new_key, ttl); copied += 1
CopierExpire(c) ==
    /\ pc[c] = "expire"
    /\ rdb' = RedisExpire(rdb, fqkey(CopyDst, CopyKey), SESSION_TTL, now)
    /\ pc' = [pc EXCEPT ![c] = "done"]
    /\ UNCHANGED <<now, mem, last, wlog, copied, written, backend, max_retries, client,
                   session_id, call, env, log>>

\* another client of the Redis server looks at the destination key (EXISTS, TTL)
ReaderLooks ==
    /\ LET k == fqkey(CopyDst, CopyKey)
           o == [exists   |-> RedisExists(rdb, k, now),
                 expiring |-> RedisExists(rdb, k, now) /\ rdb[k].exp # NoneInt]
       IN  /\ o \notin env.seen
           /\ env' = [env EXCEPT !.seen = @ \cup {o}]
    /\ UNCHANGED <<storeVars, backend, max_retries, client, session_id, pc, call, log>>

NextCopyRace ==
    \/ \E c \in Copiers : CopierScan(c)
    \/ \E c \in Copiers : CopierDelete(c)
    \/ \E c \in Copiers : CopierRPush(c)
    \/ \E c \in Copiers : CopierExpire(c)
    \/ ReaderLooks

SpecCopyRace == InitCopyRace /\ [][NextCopyRace]_vars

\* no reader saw the destination key without an expiry
NeverSeenWithoutExpiry == \A o \in env.seen : o.exists => o.expiring

\* no reader saw a destination key that was live before the copies as absent
NeverSeenAbsent == env.was_live => \A o \in env.seen : o.exists

\* when both copies have ended the destination list equals the source list
EndsEqualToSource ==
    (\A c \in Copiers : pc[c] = "done") =>
        /\ RedisType(rdb, fqkey(CopyDst, CopyKey), now) = "list"
        /\ rdb[fqkey(CopyDst, CopyKey)].val = rdb[fqkey(CopySrc, CopyKey)].val

\* C35 (copy_session under concurrency, Redis): under every interleaving with readers
\* and with a second copy_session to the same destination, a copy_session called with a
\* ttl never leaves a destination key observable without an expiry, never makes a
\* previously live destination key transiently absent, and ends with the destination
\* sequence equal to the source sequence.
C35_CopyUnderConcurrency ==
    /\ NeverSeenWithoutExpiry
    /\ NeverSeenAbsent
    /\ EndsEqualToSource

====
